---------------------------- MODULE Spec2Model ----------------------------
(***************************************************************************)
(* Recipe explorer: the in-memory recipe store (app/services/storage.py),  *)
(* the declarative schema (app/models.py), the imperative validators       *)
(* (app/validation.py), the response builders (app/error_handlers.py) and  *)
(* the HTTP handlers of app/routes/api.py; the adapter of the external     *)
(* food API (app/services/themealdb_adapter.py) and the metrics collector  *)
(* (app/services/metrics.py).                                              *)
(*                                                                         *)
(* Text is a sequence of one-character strings, so that len(), strip()     *)
(* and the character classes of the id pattern are computed, not assumed.  *)
(* A JSON value of a request body is a record [kind, str, items]: kind is  *)
(* "absent" (the key is not in the object), "null", "num" (a number),      *)
(* "str" (its text in str) or "list" (its elements, JSON values, in        *)
(* items).                                                                 *)
(***************************************************************************)
EXTENDS Integers, Sequences, FiniteSets, TLC

VARIABLES recipes, nextUuid, now, last, prev, posted, writes, collector,
          recorded, probe

vars ==
    <<recipes, nextUuid, now, last, prev, posted, writes, collector, recorded, probe>>

---------------------------------------------------------------------------
(* Text                                                                    *)

Whitespace == {" ", "\t", "\n"}

Digits == {"0", "1", "2", "3", "4", "5", "6", "7", "8", "9"}

LowerHex == {"a", "b", "c", "d", "e", "f"}

Letters ==
    {"a", "b", "c", "d", "e", "f", "g", "h", "i", "j", "k", "l", "m",
     "n", "o", "p", "q", "r", "s", "t", "u", "v", "w", "x", "y", "z",
     "A", "B", "C", "D", "E", "F", "G", "H", "I", "J", "K", "L", "M",
     "N", "O", "P", "Q", "R", "S", "T", "U", "V", "W", "X", "Y", "Z"}

Rep(c, n) == [i \in 1..n |-> c]

RECURSIVE FirstNonSpace(_, _)
FirstNonSpace(s, i) ==
    IF i > Len(s) \/ s[i] \notin Whitespace THEN i ELSE FirstNonSpace(s, i + 1)

RECURSIVE LastNonSpace(_, _)
LastNonSpace(s, i) ==
    IF i < 1 \/ s[i] \notin Whitespace THEN i ELSE LastNonSpace(s, i - 1)

\* str.strip()
Strip(s) ==
    LET a == FirstNonSpace(s, 1)
        b == LastNonSpace(s, Len(s))
    IN  IF a > b THEN <<>> ELSE SubSeq(s, a, b)

\* s.startswith(p)
StartsWith(s, p) == Len(s) >= Len(p) /\ SubSeq(s, 1, Len(p)) = p

\* s.endswith(p)
EndsWith(s, p) == Len(s) >= Len(p) /\ SubSeq(s, Len(s) - Len(p) + 1, Len(s)) = p

AllIn(s, cs) == \A i \in 1..Len(s) : s[i] \in cs

\* re.match(r'^[cs]+$', s): a final "$" also matches before one trailing newline
MatchesPlus(s, cs) ==
    \/ Len(s) >= 1 /\ AllIn(s, cs)
    \/ Len(s) >= 2 /\ s[Len(s)] = "\n" /\ AllIn(SubSeq(s, 1, Len(s) - 1), cs)

\* re.match(r'^[cs]{n}$', s)
MatchesCount(s, cs, n) ==
    \/ Len(s) = n /\ AllIn(s, cs)
    \/ Len(s) = n + 1 /\ s[Len(s)] = "\n" /\ AllIn(SubSeq(s, 1, n), cs)

---------------------------------------------------------------------------
(* JSON values of a request body                                           *)

Absent == [kind |-> "absent", str |-> <<>>, items |-> <<>>]

Null == [kind |-> "null", str |-> <<>>, items |-> <<>>]

Num == [kind |-> "num", str |-> <<>>, items |-> <<>>]

Str(s) == [kind |-> "str", str |-> s, items |-> <<>>]

List(xs) == [kind |-> "list", str |-> <<>>, items |-> xs]

StrList(ss) == List([i \in 1..Len(ss) |-> Str(ss[i])])

\* Python truthiness of data.get(key): a missing key and null give None, an
\* empty string and an empty list are falsy, the number modelled is non-zero.
Falsy(v) ==
    \/ v.kind \in {"absent", "null"}
    \/ v.kind = "str" /\ v.str = <<>>
    \/ v.kind = "list" /\ v.items = <<>>

\* data.get(key) is None
IsNone(v) == v.kind \in {"absent", "null"}

---------------------------------------------------------------------------
(* Schema constants                                                        *)

MAX_TITLE_LENGTH == 200

MAX_INGREDIENTS == 50

MAX_INSTRUCTIONS == 50

MAX_TAGS == 20

MAX_DESCRIPTION_LENGTH == 2000

MIN_TITLE_LENGTH == 3

MIN_DESCRIPTION_LENGTH == 10

MIN_INGREDIENT_LENGTH == 2

MIN_INSTRUCTION_LENGTH == 5

MAX_TAG_LENGTH == 30

MIN_REGION_LENGTH == 2

MAX_REGION_LENGTH == 100

MAX_ID_LENGTH == 100

UUID_LENGTH == 36

MAX_IMPORT_RECIPES == 1000

MAX_FILE_SIZE == 2097152

---------------------------------------------------------------------------
(* More text: the str methods the search and the adapter use               *)

LowerCase ==
    <<"a", "b", "c", "d", "e", "f", "g", "h", "i", "j", "k", "l", "m",
      "n", "o", "p", "q", "r", "s", "t", "u", "v", "w", "x", "y", "z">>

UpperCase ==
    <<"A", "B", "C", "D", "E", "F", "G", "H", "I", "J", "K", "L", "M",
      "N", "O", "P", "Q", "R", "S", "T", "U", "V", "W", "X", "Y", "Z">>

LowerChar(c) ==
    IF \E i \in 1..26 : UpperCase[i] = c
    THEN LowerCase[CHOOSE i \in 1..26 : UpperCase[i] = c]
    ELSE c

\* str.lower()
Lower(s) == [i \in 1..Len(s) |-> LowerChar(s[i])]

\* p in s
Contains(s, p) ==
    \E i \in 0..(Len(s) - Len(p)) : SubSeq(s, i + 1, i + Len(p)) = p

\* the first place of character c in s, 0 when it has none
IndexOf(s, c) ==
    IF \E i \in 1..Len(s) : s[i] = c
    THEN CHOOSE i \in 1..Len(s) : s[i] = c /\ \A j \in 1..(i - 1) : s[j] # c
    ELSE 0

\* s.split(c) for a one-character separator
RECURSIVE Split(_, _)
Split(s, c) ==
    LET i == IndexOf(s, c)
    IN  IF i = 0 THEN <<s>>
        ELSE <<SubSeq(s, 1, i - 1)>> \o Split(SubSeq(s, i + 1, Len(s)), c)

\* s.replace(p, "")
RECURSIVE Remove(_, _)
Remove(s, p) ==
    IF Len(s) < Len(p) \/ p = <<>> THEN s
    ELSE IF StartsWith(s, p) THEN Remove(SubSeq(s, Len(p) + 1, Len(s)), p)
    ELSE <<Head(s)>> \o Remove(Tail(s), p)

\* s.lstrip(cs)
RECURSIVE LStrip(_, _)
LStrip(s, cs) ==
    IF s # <<>> /\ Head(s) \in cs THEN LStrip(Tail(s), cs) ELSE s

\* " ".join(parts)
RECURSIVE JoinSpace(_)
JoinSpace(parts) ==
    IF parts = <<>> THEN <<>>
    ELSE IF Len(parts) = 1 THEN parts[1]
    ELSE parts[1] \o <<" ">> \o JoinSpace(Tail(parts))

---------------------------------------------------------------------------
(* The declarative schema (pydantic models)                                *)
(*                                                                         *)
(* A request body is a record with the eleven keys below, each a JSON      *)
(* value.  A field's constraints (min_length, max_length) are checked on   *)
(* the value as sent; the field validator runs after them and returns the  *)
(* trimmed value.  A field check yields [ok, val, errs], errs being the    *)
(* error records [field, index, code, entry] pydantic reports for it       *)
(* (index -1: the field itself, entry -1: not inside an import file).      *)

EmptyBody ==
    [title |-> Absent, description |-> Absent, ingredients |-> Absent,
     instructions |-> Absent, tags |-> Absent, region |-> Absent,
     cuisine |-> Absent, id |-> Absent, source |-> Absent,
     created_at |-> Absent, updated_at |-> Absent]

Err(field, index, code) ==
    [field |-> field, index |-> index, code |-> code, entry |-> -1]

Fail(errs) == [ok |-> FALSE, val |-> <<>>, errs |-> errs]

Pass(val) == [ok |-> TRUE, val |-> val, errs |-> <<>>]

\* indices (0-based, as enumerate gives them) of the elements that are no strings
NonStrItems(xs) == {i \in 0..(Len(xs) - 1) : xs[i + 1].kind # "str"}

RECURSIVE ItemTypeErrors(_, _, _)
ItemTypeErrors(field, xs, i) ==
    IF i >= Len(xs) THEN <<>>
    ELSE (IF xs[i + 1].kind # "str" THEN <<Err(field, i, "string_type")>> ELSE <<>>)
         \o ItemTypeErrors(field, xs, i + 1)

\* StrField as it would be if the validators returned v instead of v.strip()
StrField_Untrimmed(field, v, minLen, maxLen) ==
    IF v.kind = "absent" THEN Fail(<<Err(field, -1, "missing")>>)
    ELSE IF v.kind # "str" THEN Fail(<<Err(field, -1, "string_type")>>)
    ELSE IF Len(v.str) < minLen THEN Fail(<<Err(field, -1, "string_too_short")>>)
    ELSE IF Len(v.str) > maxLen THEN Fail(<<Err(field, -1, "string_too_long")>>)
    ELSE IF v.str = <<>> \/ Strip(v.str) = <<>>
         THEN Fail(<<Err(field, -1, "value_error")>>)
    ELSE Pass(v.str)

\* title, description, region, cuisine: str with min_length and max_length, and
\* a validator that refuses whitespace-only text and returns v.strip()
StrField(field, v, minLen, maxLen) ==
    IF v.kind = "absent" THEN Fail(<<Err(field, -1, "missing")>>)
    ELSE IF v.kind # "str" THEN Fail(<<Err(field, -1, "string_type")>>)
    ELSE IF Len(v.str) < minLen THEN Fail(<<Err(field, -1, "string_too_short")>>)
    ELSE IF Len(v.str) > maxLen THEN Fail(<<Err(field, -1, "string_too_long")>>)
    ELSE IF v.str = <<>> \/ Strip(v.str) = <<>>
         THEN Fail(<<Err(field, -1, "value_error")>>)
    ELSE Pass(Strip(v.str))

\* validate_ingredients / validate_instructions: every element trimmed, refused
\* when empty or shorter than minItemLen
StripAll(xs) == [i \in 1..Len(xs) |-> Strip(xs[i].str)]

StrListField(field, v, minItems, maxItems, minItemLen) ==
    IF v.kind = "absent" THEN Fail(<<Err(field, -1, "missing")>>)
    ELSE IF v.kind # "list" THEN Fail(<<Err(field, -1, "list_type")>>)
    ELSE IF NonStrItems(v.items) # {} THEN Fail(ItemTypeErrors(field, v.items, 0))
    ELSE IF Len(v.items) < minItems THEN Fail(<<Err(field, -1, "too_short")>>)
    ELSE IF Len(v.items) > maxItems THEN Fail(<<Err(field, -1, "too_long")>>)
    ELSE IF \E i \in 1..Len(v.items) : Len(Strip(v.items[i].str)) < minItemLen
         THEN Fail(<<Err(field, -1, "value_error")>>)
    ELSE Pass(StripAll(v.items))

\* validate_tags: trimmed, empty tags skipped, a tag over 30 characters refused
RECURSIVE KeptTags(_)
KeptTags(xs) ==
    IF xs = <<>> THEN <<>>
    ELSE (IF Strip(Head(xs).str) = <<>> THEN <<>> ELSE <<Strip(Head(xs).str)>>)
         \o KeptTags(Tail(xs))

TagsField(field, v) ==
    IF v.kind = "absent" THEN Pass(<<>>)
    ELSE IF v.kind # "list" THEN Fail(<<Err(field, -1, "list_type")>>)
    ELSE IF NonStrItems(v.items) # {} THEN Fail(ItemTypeErrors(field, v.items, 0))
    ELSE IF Len(v.items) > MAX_TAGS THEN Fail(<<Err(field, -1, "too_long")>>)
    ELSE IF \E i \in 1..Len(v.items) : Len(Strip(v.items[i].str)) > MAX_TAG_LENGTH
         THEN Fail(<<Err(field, -1, "value_error")>>)
    ELSE Pass(KeptTags(v.items))

\* the seven fields RecipeCreate, RecipeUpdate and Recipe declare alike
SchemaFields(data) ==
    [title        |-> StrField("title", data.title, MIN_TITLE_LENGTH, MAX_TITLE_LENGTH),
     description  |-> StrField("description", data.description,
                               MIN_DESCRIPTION_LENGTH, MAX_DESCRIPTION_LENGTH),
     ingredients  |-> StrListField("ingredients", data.ingredients, 1,
                                   MAX_INGREDIENTS, MIN_INGREDIENT_LENGTH),
     instructions |-> StrListField("instructions", data.instructions, 1,
                                   MAX_INSTRUCTIONS, MIN_INSTRUCTION_LENGTH),
     tags         |-> TagsField("tags", data.tags),
     region       |-> StrField("region", data.region, MIN_REGION_LENGTH, MAX_REGION_LENGTH),
     cuisine      |-> StrField("cuisine", data.cuisine, MIN_REGION_LENGTH, MAX_REGION_LENGTH)]

SchemaErrors(f) ==
    f.title.errs \o f.description.errs \o f.ingredients.errs \o f.instructions.errs
    \o f.tags.errs \o f.region.errs \o f.cuisine.errs

SchemaValue(f) ==
    [title |-> f.title.val, description |-> f.description.val,
     ingredients |-> f.ingredients.val, instructions |-> f.instructions.val,
     tags |-> f.tags.val, region |-> f.region.val, cuisine |-> f.cuisine.val]

\* RecipeCreate(**data): keys the model does not declare are ignored
RecipeCreate(data) ==
    LET f == SchemaFields(data)
    IN  [ok |-> SchemaErrors(f) = <<>>, errs |-> SchemaErrors(f), val |-> SchemaValue(f)]

\* RecipeUpdate(**data)
RecipeUpdate(data) ==
    LET f == SchemaFields(data)
    IN  [ok |-> SchemaErrors(f) = <<>>, errs |-> SchemaErrors(f), val |-> SchemaValue(f)]

\* model_dump(): the validated fields as a plain dict
ModelDump(val) ==
    [EmptyBody EXCEPT !.title = Str(val.title), !.description = Str(val.description),
                      !.ingredients = StrList(val.ingredients),
                      !.instructions = StrList(val.instructions),
                      !.tags = StrList(val.tags), !.region = Str(val.region),
                      !.cuisine = Str(val.cuisine)]

\* Recipe(**data).  idDefault is the uuid4 the default factory would draw; created
\* and updated are the datetime values the caller passes or the defaults the two
\* datetime.now factories give.  id must be a string when given (any string), source
\* one of the two literals.
RecipeModel(data, idDefault, created, updated) ==
    LET f == SchemaFields(data)
        idErrs == IF data.id.kind \in {"absent", "str"} THEN <<>>
                  ELSE <<Err("id", -1, "string_type")>>
        srcErrs == IF \/ data.source.kind = "absent"
                      \/ /\ data.source.kind = "str"
                         /\ data.source.str \in {<<"i","n","t","e","r","n","a","l">>,
                                                 <<"e","x","t","e","r","n","a","l">>}
                   THEN <<>>
                   ELSE <<Err("source", -1, "literal_error")>>
        errs == idErrs \o SchemaErrors(f) \o srcErrs
        v == SchemaValue(f)
    IN  [ok |-> errs = <<>>, errs |-> errs,
         val |-> [id |-> IF data.id.kind = "str" THEN data.id.str ELSE idDefault,
                  title |-> v.title, description |-> v.description,
                  ingredients |-> v.ingredients, instructions |-> v.instructions,
                  tags |-> v.tags, region |-> v.region, cuisine |-> v.cuisine,
                  source |-> IF data.source.kind = "str"
                             THEN (IF data.source.str = <<"e","x","t","e","r","n","a","l">>
                                   THEN "external" ELSE "internal")
                             ELSE "internal",
                  created_at |-> created, updated_at |-> updated]]

---------------------------------------------------------------------------
(* The imperative validators (app/validation.py)                           *)

\* ValidationResult()
NewResult == [is_valid |-> TRUE, errors |-> <<>>]

\* add_error as it would be if it appended the record and left the flag alone
AddError_KeepsFlag(result, field, index, code) ==
    [is_valid |-> result.is_valid,
     errors |-> Append(result.errors, Err(field, index, code))]

\* ValidationResult.add_error
AddError(result, field, index, code) ==
    [is_valid |-> FALSE, errors |-> Append(result.errors, Err(field, index, code))]

\* the loop over e.errors(): one record per pydantic error, named by loc[0]
RECURSIVE AddPydanticErrors(_, _)
AddPydanticErrors(result, errs) ==
    IF errs = <<>> THEN result
    ELSE AddPydanticErrors(AddError(result, Head(errs).field, -1, "pydantic_error"),
                           Tail(errs))

\* _validate_title as it would be without the minimum-length branch
_validate_title_NoMinimum(title, result) ==
    IF Falsy(title) THEN AddError(result, "title", -1, "required")
    ELSE IF title.kind # "str" THEN AddError(result, "title", -1, "type_error")
    ELSE LET t == Strip(title.str)
         IN  IF Len(t) = 0 THEN AddError(result, "title", -1, "empty")
             ELSE IF Len(t) > MAX_TITLE_LENGTH THEN AddError(result, "title", -1, "too_long")
             ELSE result

_validate_title(title, result) ==
    IF Falsy(title) THEN AddError(result, "title", -1, "required")
    ELSE IF title.kind # "str" THEN AddError(result, "title", -1, "type_error")
    ELSE LET t == Strip(title.str)
         IN  IF Len(t) = 0 THEN AddError(result, "title", -1, "empty")
             ELSE IF Len(t) > MAX_TITLE_LENGTH THEN AddError(result, "title", -1, "too_long")
             ELSE IF Len(t) < MIN_TITLE_LENGTH THEN AddError(result, "title", -1, "too_short")
             ELSE result

_validate_description(description, result) ==
    IF Falsy(description) THEN AddError(result, "description", -1, "required")
    ELSE IF description.kind # "str" THEN AddError(result, "description", -1, "type_error")
    ELSE LET t == Strip(description.str)
         IN  IF Len(t) = 0 THEN AddError(result, "description", -1, "empty")
             ELSE IF Len(t) < MIN_DESCRIPTION_LENGTH
                  THEN AddError(result, "description", -1, "too_short")
             ELSE IF Len(t) > MAX_DESCRIPTION_LENGTH
                  THEN AddError(result, "description", -1, "too_long")
             ELSE result

\* the loop of _validate_ingredients and _validate_instructions over the elements
RECURSIVE CheckItems(_, _, _, _, _)
CheckItems(field, xs, i, minLen, result) ==
    IF i >= Len(xs) THEN result
    ELSE LET x == xs[i + 1]
             r == IF x.kind # "str" THEN AddError(result, field, i, "type_error")
                  ELSE IF x.str = <<>> \/ Strip(x.str) = <<>>
                       THEN AddError(result, field, i, "empty")
                  ELSE IF Len(Strip(x.str)) < minLen
                       THEN AddError(result, field, i, "too_short")
                  ELSE result
         IN  CheckItems(field, xs, i + 1, minLen, r)

_validate_ingredients(ingredients, result) ==
    IF Falsy(ingredients) THEN AddError(result, "ingredients", -1, "required")
    ELSE IF ingredients.kind # "list"
         THEN AddError(result, "ingredients", -1, "type_error")
    ELSE IF Len(ingredients.items) = 0 THEN AddError(result, "ingredients", -1, "empty")
    ELSE CheckItems("ingredients", ingredients.items, 0, MIN_INGREDIENT_LENGTH,
                    IF Len(ingredients.items) > MAX_INGREDIENTS
                    THEN AddError(result, "ingredients", -1, "too_many")
                    ELSE result)

_validate_instructions(instructions, result) ==
    IF Falsy(instructions) THEN AddError(result, "instructions", -1, "required")
    ELSE IF instructions.kind # "list"
         THEN AddError(result, "instructions", -1, "type_error")
    ELSE IF Len(instructions.items) = 0 THEN AddError(result, "instructions", -1, "empty")
    ELSE CheckItems("instructions", instructions.items, 0, MIN_INSTRUCTION_LENGTH,
                    IF Len(instructions.items) > MAX_INSTRUCTIONS
                    THEN AddError(result, "instructions", -1, "too_many")
                    ELSE result)

\* one of the two halves of _validate_region_cuisine
CheckRegion(field, v, result) ==
    IF Falsy(v) THEN AddError(result, field, -1, "required")
    ELSE IF v.kind # "str" THEN AddError(result, field, -1, "type_error")
    ELSE IF Strip(v.str) = <<>> THEN AddError(result, field, -1, "empty")
    ELSE IF Len(Strip(v.str)) < MIN_REGION_LENGTH
         THEN AddError(result, field, -1, "too_short")
    ELSE result

_validate_region_cuisine(region, cuisine, result) ==
    CheckRegion("cuisine", cuisine, CheckRegion("region", region, result))

\* the loop of _validate_tags over the tags
RECURSIVE CheckTags(_, _, _)
CheckTags(xs, i, result) ==
    IF i >= Len(xs) THEN result
    ELSE LET x == xs[i + 1]
             r == IF x.kind # "str" THEN AddError(result, "tags", i, "type_error")
                  ELSE IF x.str = <<>> \/ Strip(x.str) = <<>>
                       THEN AddError(result, "tags", i, "empty")
                  ELSE IF Len(Strip(x.str)) > MAX_TAG_LENGTH
                       THEN AddError(result, "tags", i, "too_long")
                  ELSE result
         IN  CheckTags(xs, i + 1, r)

_validate_tags(tags, result) ==
    IF IsNone(tags) THEN result
    ELSE IF tags.kind # "list" THEN AddError(result, "tags", -1, "type_error")
    ELSE CheckTags(tags.items, 0,
                   IF Len(tags.items) > MAX_TAGS
                   THEN AddError(result, "tags", -1, "too_many")
                   ELSE result)

\* the six business checks both validate_recipe_create and validate_recipe_update run
BusinessChecks(data, result) ==
    _validate_tags(data.tags,
      _validate_region_cuisine(data.region, data.cuisine,
        _validate_instructions(data.instructions,
          _validate_ingredients(data.ingredients,
            _validate_description(data.description,
              _validate_title(data.title, result))))))

\* RecipeValidator.validate_recipe_create
validate_recipe_create(data) ==
    BusinessChecks(data, AddPydanticErrors(NewResult, RecipeCreate(data).errs))

\* validate_recipe_update as it would be without the hand-written checks
validate_recipe_update_SchemaOnly(data) ==
    AddPydanticErrors(NewResult, RecipeUpdate(data).errs)

\* RecipeValidator.validate_recipe_update
validate_recipe_update(data) ==
    BusinessChecks(data, AddPydanticErrors(NewResult, RecipeUpdate(data).errs))

\* validate_recipe_id; the id of a request path is always a string
validate_recipe_id(recipe_id) ==
    IF recipe_id = <<>> THEN AddError(NewResult, "recipe_id", -1, "required")
    ELSE IF Len(Strip(recipe_id)) = 0 THEN AddError(NewResult, "recipe_id", -1, "empty")
    ELSE IF Len(recipe_id) > MAX_ID_LENGTH
         THEN AddError(NewResult, "recipe_id", -1, "too_long")
    ELSE IF ~ \/ MatchesCount(recipe_id, LowerHex \cup Digits \cup {"-"}, UUID_LENGTH)
              \/ StartsWith(recipe_id, <<"t", "e", "s", "t", "-">>)
              \/ MatchesPlus(recipe_id, Letters \cup Digits \cup {"_", "-"})
         THEN AddError(NewResult, "recipe_id", -1, "invalid_format")
    ELSE NewResult

\* An uploaded file: its name, its size in bytes and what json.loads makes of its
\* bytes: parse is "undecodable" (the bytes are no text in any encoding json.loads
\* detects: UnicodeDecodeError), "malformed" (JSONDecodeError) or "ok"; then isList
\* tells a JSON array from any other JSON value, and entries are the array's
\* elements, each [isObject, body].
Entry(body) == [isObject |-> TRUE, body |-> body]

NonObjectEntry == [isObject |-> FALSE, body |-> EmptyBody]

\* the loop of validate_import_data: the errors of recipe i under "data[i].<field>"
RECURSIVE PrefixErrors(_, _, _)
PrefixErrors(result, errs, i) ==
    IF errs = <<>> THEN result
    ELSE PrefixErrors(
           [is_valid |-> FALSE,
            errors |-> Append(result.errors, [Head(errs) EXCEPT !.entry = i])],
           Tail(errs), i)

RECURSIVE CheckEntries(_, _, _)
CheckEntries(entries, i, result) ==
    IF i >= Len(entries) THEN result
    ELSE LET e == entries[i + 1]
             r == IF ~e.isObject THEN AddError(result, "data", i, "type_error")
                  ELSE PrefixErrors(result, validate_recipe_create(e.body).errors, i)
         IN  CheckEntries(entries, i + 1, r)

validate_import_data(isList, entries) ==
    IF ~isList THEN AddError(NewResult, "data", -1, "type_error")
    ELSE IF Len(entries) = 0 THEN AddError(NewResult, "data", -1, "empty")
    ELSE IF Len(entries) > MAX_IMPORT_RECIPES
         THEN AddError(NewResult, "data", -1, "too_many")
    ELSE CheckEntries(entries, 0, NewResult)

MAX_SEARCH_LENGTH == 100

\* validate_search_query: query is Absent for None, Str(q) for a given parameter
validate_search_query(query) ==
    IF query.kind = "absent" THEN NewResult
    ELSE IF query.kind # "str" THEN AddError(NewResult, "search", -1, "type_error")
    ELSE IF Len(Strip(query.str)) = 0 THEN AddError(NewResult, "search", -1, "empty")
    ELSE IF Len(query.str) > MAX_SEARCH_LENGTH
         THEN AddError(NewResult, "search", -1, "too_long")
    ELSE NewResult

---------------------------------------------------------------------------
(* Identifiers and time                                                    *)

DigitSeq == <<"0", "1", "2", "3", "4", "5", "6", "7", "8", "9">>

TwoDigits(n) == <<DigitSeq[((n \div 10) % 10) + 1], DigitSeq[(n % 10) + 1]>>

\* str(uuid.uuid4()): 36 characters, hexadecimal digits and four dashes.  The n-th
\* identifier drawn is a fresh one: uuid4 does not repeat.
Uuid(n) ==
    Rep("0", 8) \o <<"-">> \o Rep("0", 4) \o <<"-", "4">> \o Rep("0", 3)
    \o <<"-", "8">> \o Rep("0", 3) \o <<"-">> \o Rep("0", 8) \o TwoDigits(n \div 100)
    \o TwoDigits(n)

\* datetime.now() is read from a clock that only moves forward: the t-th reading,
\* t seconds after the first.  datetime.isoformat() of reading t, and
\* datetime.fromisoformat() back
IsoPrefix == <<"2","0","2","5","-","0","1","-","0","1","T","0","0",":">>

IsoFormat(t) == IsoPrefix \o TwoDigits(t \div 60) \o <<":">> \o TwoDigits(t % 60)

DigitValue(c) == CHOOSE n \in 0..9 : DigitSeq[n + 1] = c

TwoDigitValue(s, i) == 10 * DigitValue(s[i]) + DigitValue(s[i + 1])

IsIsoFormat(s) ==
    /\ Len(s) = Len(IsoPrefix) + 5
    /\ SubSeq(s, 1, Len(IsoPrefix)) = IsoPrefix
    /\ \A i \in {15, 16, 18, 19} : s[i] \in Digits
    /\ s[17] = ":"
    /\ TwoDigitValue(s, 15) < 60
    /\ TwoDigitValue(s, 18) < 60

FromIsoFormat(s) == 60 * TwoDigitValue(s, 15) + TwoDigitValue(s, 18)

---------------------------------------------------------------------------
(* The store (app/services/storage.py)                                     *)
(*                                                                         *)
(* recipes is RecipeStorage.recipes: a function from the stored ids to the *)
(* Recipe objects.  An Optional[Recipe] is a sequence of no or one recipe. *)

\* _add_default_test_recipe
DefaultId ==
    <<"t","e","s","t","-","r","e","c","i","p","e","-","s","c","h","e","m","a","-","0",
     "0","1">>

DefaultTitle ==
    <<"T","e","s","t"," ","R","e","c","i","p","e"," ","-"," ","J","a","m","i","e"," ",
     "C","h","e","n"," ","S","c","h","e","m","a"," ","U","p","d","a","t","e">>

DefaultDescription ==
    <<"A"," ","t","e","s","t"," ","r","e","c","i","p","e"," ","t","o"," ","v","a","l",
     "i","d","a","t","e"," ","t","h","e"," ","n","e","w"," ","s","c","h","e","m","a",
     " ","w","i","t","h"," ","c","u","i","s","i","n","e"," ","f","i","e","l","d",",",
     " ","i","n","s","t","r","u","c","t","i","o","n","s"," ","a","s"," ","a","r","r",
     "a","y",","," ","a","n","d"," ","n","o"," ","d","i","f","f","i","c","u","l","t",
     "y"," ","f","i","e","l","d",".">>

DefaultIngredients ==
    << <<"2"," ","c","u","p","s"," ","t","e","s","t"," ","i","n","g","r","e","d","i","e",
        "n","t"," ","A">>,
       <<"1"," ","c","u","p"," ","t","e","s","t"," ","i","n","g","r","e","d","i","e","n",
        "t"," ","B">>,
       <<"3"," ","t","a","b","l","e","s","p","o","o","n","s"," ","t","e","s","t"," ","s",
        "e","a","s","o","n","i","n","g">>,
       <<"S","a","l","t"," ","a","n","d"," ","p","e","p","p","e","r"," ","t","o"," ","t",
        "a","s","t","e">> >>

DefaultInstructions ==
    << <<"P","r","e","p","a","r","e"," ","a","l","l"," ","i","n","g","r","e","d","i","e",
        "n","t","s"," ","b","y"," ","w","a","s","h","i","n","g"," ","a","n","d"," ","c",
        "h","o","p","p","i","n","g"," ","a","s"," ","n","e","e","d","e","d",".">>,
       <<"H","e","a","t"," ","o","i","l"," ","i","n"," ","a"," ","l","a","r","g","e"," ",
        "p","a","n"," ","o","v","e","r"," ","m","e","d","i","u","m"," ","h","e","a","t",
        ".">>,
       <<"A","d","d"," ","i","n","g","r","e","d","i","e","n","t"," ","A"," ","a","n","d",
        " ","c","o","o","k"," ","f","o","r"," ","5"," ","m","i","n","u","t","e","s",",",
        " ","s","t","i","r","r","i","n","g"," ","o","c","c","a","s","i","o","n","a","l",
        "l","y",".">>,
       <<"M","i","x"," ","i","n"," ","i","n","g","r","e","d","i","e","n","t"," ","B"," ",
        "a","n","d"," ","t","e","s","t"," ","s","e","a","s","o","n","i","n","g",".">>,
       <<"S","e","a","s","o","n"," ","w","i","t","h"," ","s","a","l","t"," ","a","n","d",
        " ","p","e","p","p","e","r",","," ","c","o","o","k"," ","f","o","r"," ","a","n",
        "o","t","h","e","r"," ","3"," ","m","i","n","u","t","e","s",".">>,
       <<"S","e","r","v","e"," ","i","m","m","e","d","i","a","t","e","l","y"," ","w","h",
        "i","l","e"," ","h","o","t",".">> >>

DefaultTags ==
    << <<"t","e","s","t">>,
       <<"s","c","h","e","m","a","-","v","a","l","i","d","a","t","i","o","n">>,
       <<"q","u","i","c","k">> >>

DefaultRegion ==
    <<"T","e","s","t"," ","R","e","g","i","o","n">>

DefaultCuisine ==
    <<"T","e","s","t"," ","C","u","i","s","i","n","e">>

DefaultRecipe ==
    [id |-> DefaultId, title |-> DefaultTitle, description |-> DefaultDescription,
     ingredients |-> DefaultIngredients, instructions |-> DefaultInstructions,
     tags |-> DefaultTags, region |-> DefaultRegion, cuisine |-> DefaultCuisine,
     source |-> "internal", created_at |-> 0, updated_at |-> 1]

\* dict assignment self.recipes[key] = recipe
Put(store, key, recipe) ==
    [k \in DOMAIN store \cup {key} |-> IF k = key THEN recipe ELSE store[k]]

\* del self.recipes[key]
Del(store, key) == [k \in DOMAIN store \ {key} |-> store[k]]

EmptyStore == [k \in {} |-> DefaultRecipe]

\* RecipeStorage.__init__
InitialStore == Put(EmptyStore, DefaultId, DefaultRecipe)

\* RecipeStorage.get_recipe: self.recipes.get(recipe_id)
storage_get_recipe(store, recipe_id) ==
    IF recipe_id \in DOMAIN store THEN <<store[recipe_id]>> ELSE <<>>

\* RecipeStorage.get_all_recipes
storage_get_all_recipes(store) == {store[k] : k \in DOMAIN store}

\* storage_create_recipe as it would be if the new recipe were returned but not
\* put in the dict
storage_create_recipe_NotStored(store, val, uuid, t) ==
    LET m == RecipeModel(ModelDump(val), Uuid(uuid), t, t + 1)
    IN  IF ~m.ok
        THEN [raised |-> TRUE, recipe |-> <<>>, store |-> store,
              uuid |-> uuid, now |-> t]
        ELSE [raised |-> FALSE, recipe |-> <<m.val>>,
              store |-> store, uuid |-> uuid + 1, now |-> t + 2]

\* storage_create_recipe as it would be if the dict were keyed by title
storage_create_recipe_KeyedByTitle(store, val, uuid, t) ==
    LET m == RecipeModel(ModelDump(val), Uuid(uuid), t, t + 1)
    IN  IF ~m.ok
        THEN [raised |-> TRUE, recipe |-> <<>>, store |-> store,
              uuid |-> uuid, now |-> t]
        ELSE [raised |-> FALSE, recipe |-> <<m.val>>,
              store |-> Put(store, m.val.title, m.val), uuid |-> uuid + 1,
              now |-> t + 2]

\* RecipeStorage.create_recipe: Recipe(**recipe_data.model_dump()), stored under its
\* id.  raised: the Recipe model refused the dumped values.
storage_create_recipe(store, val, uuid, t) ==
    LET m == RecipeModel(ModelDump(val), Uuid(uuid), t, t + 1)
    IN  IF ~m.ok
        THEN [raised |-> TRUE, recipe |-> <<>>, store |-> store,
              uuid |-> uuid, now |-> t]
        ELSE [raised |-> FALSE, recipe |-> <<m.val>>,
              store |-> Put(store, m.val.id, m.val), uuid |-> uuid + 1, now |-> t + 2]

\* RecipeStorage.update_recipe: setattr of the seven dumped fields, then updated_at
storage_update_recipe(store, recipe_id, val, t) ==
    IF recipe_id \notin DOMAIN store
    THEN [result |-> <<>>, store |-> store, now |-> t]
    ELSE LET recipe == [store[recipe_id] EXCEPT
                          !.title = val.title, !.description = val.description,
                          !.ingredients = val.ingredients,
                          !.instructions = val.instructions, !.tags = val.tags,
                          !.region = val.region, !.cuisine = val.cuisine,
                          !.updated_at = t]
         IN  [result |-> <<recipe>>, store |-> Put(store, recipe_id, recipe),
              now |-> t + 1]

\* storage_delete_recipe as it would be if it reported success without the del
storage_delete_recipe_KeepsRecipe(store, recipe_id) ==
    IF recipe_id \in DOMAIN store
    THEN [success |-> TRUE, store |-> store]
    ELSE [success |-> FALSE, store |-> store]

\* RecipeStorage.delete_recipe
storage_delete_recipe(store, recipe_id) ==
    IF recipe_id \in DOMAIN store
    THEN [success |-> TRUE, store |-> Del(store, recipe_id)]
    ELSE [success |-> FALSE, store |-> store]

\* One pass of the loop of RecipeStorage.import_recipes over an entry.  A key
\* created_at / updated_at that is present goes through datetime.fromisoformat,
\* which raises on anything but ISO text; Recipe(**recipe_dict) raises on what the
\* model refuses; an entry that raises is skipped.
TimeGiven(v) == v.kind # "absent"

TimeOk(v) == v.kind = "absent" \/ (v.kind = "str" /\ IsIsoFormat(v.str))

ImportEntry(acc, e) ==
    LET b == e.body
        created == IF TimeGiven(b.created_at) THEN FromIsoFormat(b.created_at.str)
                   ELSE acc.now
        afterCreated == IF TimeGiven(b.created_at) THEN acc.now ELSE acc.now + 1
        updated == IF TimeGiven(b.updated_at) THEN FromIsoFormat(b.updated_at.str)
                   ELSE afterCreated
        afterUpdated == IF TimeGiven(b.updated_at) THEN afterCreated
                        ELSE afterCreated + 1
    IN  IF ~e.isObject \/ ~TimeOk(b.created_at) \/ ~TimeOk(b.updated_at)
        THEN acc
        ELSE LET m == RecipeModel(b, Uuid(acc.uuid), created, updated)
             IN  IF ~m.ok THEN acc
                 ELSE [store |-> Put(acc.store, m.val.id, m.val),
                       count |-> acc.count + 1,
                       uuid |-> IF b.id.kind = "absent" THEN acc.uuid + 1 ELSE acc.uuid,
                       now |-> afterUpdated]

RECURSIVE ImportLoop(_, _, _)
ImportLoop(entries, i, acc) ==
    IF i > Len(entries) THEN acc
    ELSE ImportLoop(entries, i + 1, ImportEntry(acc, entries[i]))

\* storage_import_recipes as it would be without self.recipes.clear()
storage_import_recipes_NoClear(store, entries, uuid, t) ==
    ImportLoop(entries, 1, [store |-> store, count |-> 0, uuid |-> uuid, now |-> t])

\* RecipeStorage.import_recipes: self.recipes.clear(), then the loop
storage_import_recipes(store, entries, uuid, t) ==
    ImportLoop(entries, 1, [store |-> EmptyStore, count |-> 0, uuid |-> uuid, now |-> t])

\* storage_search_recipes as it would be if titles were compared as they are written
storage_search_recipes_CaseSensitive(store, query) ==
    IF query = <<>> THEN storage_get_all_recipes(store)
    ELSE {store[k] : k \in {j \in DOMAIN store : Contains(store[j].title, query)}}

\* RecipeStorage.search_recipes: the recipes whose lowered title holds the lowered
\* query; all of them for an empty query
storage_search_recipes(store, query) ==
    IF query = <<>> THEN storage_get_all_recipes(store)
    ELSE {store[k] : k \in {j \in DOMAIN store :
                              Contains(Lower(store[j].title), Lower(query))}}

---------------------------------------------------------------------------
(* Meals of the external food API                                          *)
(*                                                                         *)
(* A meal of the API's answer is a record of JSON values: idMeal, strMeal, *)
(* strCategory, strArea, strInstructions, strTags, and slots, where        *)
(* slots[i] holds strIngredient<i> and strMeasure<i>; the slots after the  *)
(* last one given are absent keys.  isObject is FALSE for an element of    *)
(* the meals list that is no JSON object.                                  *)

\* range(1, 21): the numbered fields _extract_ingredients reads
MEAL_SLOTS == 20

Slot(ingredient, measure) == [ingredient |-> ingredient, measure |-> measure]

NoMeal ==
    [isObject |-> TRUE, idMeal |-> Absent, strMeal |-> Absent, strCategory |-> Absent,
     strArea |-> Absent, strInstructions |-> Absent, strTags |-> Absent,
         slots |-> <<>>]

\* the ingredient slots of a meal as the API gives them: used slots, then empty
\* strings and nulls
SoupSlots ==
    <<Slot(Str(<<"c", "h", "i", "c", "k", "e", "n">>), Str(<<"1", " ", "w", "h", "o",
        "l", "e", " ">>)), Slot(Str(<<"w", "a", "t", "e", "r">>), Null),
      Slot(Str(<<>>), Str(<<" ">>)), Slot(Null, Null)>>

ChickenSoup ==
    [isObject |-> TRUE, idMeal |-> Str(<<"5", "2", "7", "7", "2">>),
        strMeal |-> Str(<<"C", "h", "i", "c", "k", "e", "n", " ", "S", "o", "u",
        "p">>),
     strCategory |-> Str(<<"C", "h", "i", "c", "k", "e", "n">>),
         strArea |-> Str(<<"J", "a", "p", "a", "n", "e", "s", "e">>),
     strInstructions |-> Str(<<"B", "o", "i", "l", " ", "t", "h", "e", " ", "c", "h",
         "i", "c", "k", "e", "n", ".", "\n", "S", "e", "r", "v", "e", " ", "i", "t",
         " ", "h", "o", "t", ".">>),
     strTags |-> Str(<<"M", "e", "a", "t", ",", "S", "o", "u", "p">>),
         slots |-> SoupSlots]

\* a meal the Recipe model refuses: a title of two characters
ShortNameMeal == [ChickenSoup EXCEPT !.idMeal = Str(<<"5", "2", "7", "7", "3">>),
    !.strMeal = Str(<<"A", "b">>)]

\* a meal the transformation raises on: a number where the tags text is expected
NumberTagsMeal == [ChickenSoup EXCEPT !.idMeal = Str(<<"5", "2", "7", "7", "4">>),
    !.strTags = Num]

\* an element of the meals list that is no object
NotObjectMeal == [NoMeal EXCEPT !.isObject = FALSE]

\* a meal without an id, and one with a tag of more than 30 characters
NoIdMeal == [ChickenSoup EXCEPT !.idMeal = Absent]

NullIdMeal == [ChickenSoup EXCEPT !.idMeal = Null]

LongTagMeal == [ChickenSoup EXCEPT !.strTags = Str(Rep("t", MAX_TAG_LENGTH + 1))]

MealNames == {Str(<<"C", "h", "i", "c", "k", "e", "n", " ", "S", "o", "u", "p">>),
    Str(<<"A", "b">>), Null, Absent}

MealAreas == {Str(<<"J", "a", "p", "a", "n", "e", "s", "e">>), Str(<<"X">>), Null}

MealInstructions ==
    {Str(<<"B", "o", "i", "l", " ", "t", "h", "e", " ", "c", "h", "i", "c", "k", "e",
        "n", ".", "\n", "S", "e", "r", "v", "e", " ", "i", "t", " ", "h", "o", "t",
        ".">>), Str(<<"S", "T", "E", "P", " ", "1", ":", " ", "M", "i", "x", "\n",
        "S", "T", "E", "P", " ", "2", ":", " ", "B", "a", "k", "e">>), Absent}

MealSlots == {SoupSlots, <<Slot(Str(<<"x">>), Str(<<>>))>>, <<>>}

\* meals for the ingredient slots: all 20 slots used and a 21st key the API does not
\* define, blank and padded texts, a number where a text is expected
ManySlots == [i \in 1..(MEAL_SLOTS + 1) |-> Slot(Str(<<"s", "a", "l", "t">>),
    Str(<<"1", " ", "t", "s", "p">>))]

PaddedSlots ==
    <<Slot(Str(<<" ", " ">>), Str(<<"1", " ", "c", "u", "p">>)), Slot(Str(<<" ", "r",
        "i", "c", "e", " ">>), Str(<<" ", "1", " ", "c", "u", "p", " ">>)),
      Slot(Absent, Str(<<"2">>)), Slot(Str(<<"s", "a", "l", "t">>), Str(<<" ",
          " ">>)),
      Slot(Str(<<"o", "i", "l">>), Absent)>>

NumberSlots == <<Slot(Str(<<"s", "a", "l", "t">>), Null), Slot(Num, Null)>>

NumberMeasureSlots == <<Slot(Str(<<"s", "a", "l", "t">>), Num)>>

SlotMeals ==
    {[ChickenSoup EXCEPT !.slots = slots] :
        slots \in {ManySlots, PaddedSlots, NumberSlots, NumberMeasureSlots,
                   <<Slot(Null, Null), Slot(Str(<<>>), Str(<<"1", " ", "c", "u",
                       "p">>))>>}}

\* meals for the tags: as many tags as the recipe may hold, blank pieces, a tag that
\* is the category, and categories that are absent, empty or blank
ManyTags(n) == Str([i \in 1..(2 * n - 1) |-> IF i % 2 = 1 THEN "t" ELSE ","])

MealTagTexts ==
    {Str(<<"M", "e", "a", "t", ",", "S", "o", "u", "p">>), Str(<<" ", "M", "e", "a",
        "t", " ", ",", " ", ",", "S", "o", "u", "p", ",">>), Str(<<"S", "o", "u", "p",
        ",", "C", "h", "i", "c", "k", "e", "n">>), Str(<<>>),
     Null, Absent, ManyTags(MAX_TAGS - 1), ManyTags(MAX_TAGS), ManyTags(MAX_TAGS + 1)}

MealCategories == {Str(<<"C", "h", "i", "c", "k", "e", "n">>), Str(<<>>), Null,
    Absent}

TagMeals ==
    {[ChickenSoup EXCEPT !.strTags = tags, !.strCategory = category] :
        tags \in MealTagTexts, category \in MealCategories}

\* the meals of the model: every combination of a name, an area, an instructions
\* text and ingredient slots, and the meals above
Meals ==
    {[ChickenSoup EXCEPT !.strMeal = name, !.strArea = area,
                         !.strInstructions = text, !.slots = slots] :
        name \in MealNames, area \in MealAreas, text \in MealInstructions,
        slots \in MealSlots}
    \cup {ShortNameMeal, NumberTagsMeal, NotObjectMeal, NoIdMeal, NullIdMeal,
          LongTagMeal}
    \cup SlotMeals \cup TagMeals

---------------------------------------------------------------------------
(* The adapter of the external food API (app/services/themealdb_adapter.py) *)
(*                                                                         *)
(* CHOOSE out \in {f(x) : x \in {e}} : TRUE is f(e) with e evaluated once:  *)
(* it is written where the code keeps a result in a local variable and     *)
(* reads it many times.                                                    *)

\* the number a JSON number of the model stands for, as str() gives it
NumText == <<"7">>

\* dict.get(key, default): the default only for a key that is absent
Get(v, default) == IF v.kind = "absent" THEN default ELSE v

\* a value inside an f-string
FText(v) ==
    IF v.kind = "str" THEN v.str
    ELSE IF v.kind = "num" THEN NumText
    ELSE <<"N", "o", "n", "e">>

\* value.strip() raises for a value that is truthy and not a string
NotText(v) == ~Falsy(v) /\ v.kind # "str"

\* ExtractSlot as it would be if the measure were not trimmed
ExtractSlot_MeasureUntrimmed(slot) ==
    LET ingredient == Get(slot.ingredient, Str(<<>>))
        measure == Get(slot.measure, Str(<<>>))
    IN  IF Falsy(ingredient) THEN [raised |-> FALSE, val |-> <<>>]
        ELSE IF ingredient.kind # "str" THEN [raised |-> TRUE, val |-> <<>>]
        ELSE IF Strip(ingredient.str) = <<>> THEN [raised |-> FALSE, val |-> <<>>]
        ELSE IF Falsy(measure) THEN [raised |-> FALSE, val |-> Strip(ingredient.str)]
        ELSE IF measure.kind # "str" THEN [raised |-> TRUE, val |-> <<>>]
        ELSE IF Strip(measure.str) # <<>>
             THEN [raised |-> FALSE,
                   val |-> measure.str \o <<" ">> \o Strip(ingredient.str)]
        ELSE [raised |-> FALSE, val |-> Strip(ingredient.str)]

\* one pass of the loop of _extract_ingredients: the text the slot adds to the
\* list, <<>> when it adds none; raised when a strip() of the pass raises
ExtractSlot(slot) ==
    LET ingredient == Get(slot.ingredient, Str(<<>>))
        measure == Get(slot.measure, Str(<<>>))
    IN  IF Falsy(ingredient) THEN [raised |-> FALSE, val |-> <<>>]
        ELSE IF ingredient.kind # "str" THEN [raised |-> TRUE, val |-> <<>>]
        ELSE IF Strip(ingredient.str) = <<>> THEN [raised |-> FALSE, val |-> <<>>]
        ELSE IF Falsy(measure) THEN [raised |-> FALSE, val |-> Strip(ingredient.str)]
        ELSE IF measure.kind # "str" THEN [raised |-> TRUE, val |-> <<>>]
        ELSE IF Strip(measure.str) # <<>>
             THEN [raised |-> FALSE,
                   val |-> Strip(measure.str) \o <<" ">> \o Strip(ingredient.str)]
        ELSE [raised |-> FALSE, val |-> Strip(ingredient.str)]

\* TheMealDBAdapter._extract_ingredients: the texts of the slots 1..20 in order
_extract_ingredients(meal) ==
    LET n == IF Len(meal.slots) < MEAL_SLOTS THEN Len(meal.slots) ELSE MEAL_SLOTS
        passes == [i \in 1..n |-> ExtractSlot(meal.slots[i])]
        added == SelectSeq(passes, LAMBDA e : e.val # <<>>)
    IN  IF \E i \in 1..n : passes[i].raised THEN [raised |-> TRUE, val |-> <<>>]
        ELSE IF added = <<>>
        THEN [raised |-> FALSE, val |-> <<<<"N", "o", " ", "i", "n", "g", "r", "e",
            "d", "i", "e", "n", "t", "s", " ", "l", "i", "s", "t", "e", "d">>>>]
        ELSE [raised |-> FALSE, val |-> [i \in 1..Len(added) |-> added[i].val]]

\* one line of the instructions text, as the loop of _parse_instructions leaves it;
\* <<>> when the line gives no step
StepOfLine(text) ==
    LET line == Strip(text)
        unstepped == Strip(Remove(line, <<"S", "T", "E", "P">>))
        uncoloned == IF StartsWith(unstepped, <<":">>)
                     THEN Strip(SubSeq(unstepped, 2, Len(unstepped)))
                     ELSE unstepped
        unnumbered == IF uncoloned # <<>> /\ uncoloned[1] \in Digits
                      THEN Strip(LStrip(uncoloned, Digits \cup {".", ":", ")", " "}))
                      ELSE uncoloned
    IN  IF line # <<>> /\ Len(line) > 5 THEN unnumbered ELSE <<>>

RECURSIVE StepsOfLines(_)
StepsOfLines(lines) ==
    IF lines = <<>> THEN <<>>
    ELSE (IF StepOfLine(Head(lines)) # <<>> THEN <<StepOfLine(Head(lines))>> ELSE <<>>)
         \o StepsOfLines(Tail(lines))

RECURSIVE StepsOfSentences(_)
StepsOfSentences(sentences) ==
    IF sentences = <<>> THEN <<>>
    ELSE (IF Strip(Head(sentences)) # <<>> /\ Len(Strip(Head(sentences))) > 10
          THEN <<Strip(Head(sentences))>> ELSE <<>>)
         \o StepsOfSentences(Tail(sentences))

\* the steps _parse_instructions makes of a text whose lines gave the steps byLine:
\* those, or the sentences of the text when the lines gave fewer than two steps
StepsOfText(text, byLine) ==
    IF Len(byLine) < 2 /\ Contains(text, <<".">>)
    THEN StepsOfSentences(Split(text, "."))
    ELSE byLine

\* TheMealDBAdapter._parse_instructions
_parse_instructions(instructions_text) ==
    IF Falsy(instructions_text)
    THEN [raised |-> FALSE, val |-> <<<<"N", "o", " ", "i", "n", "s", "t", "r", "u",
        "c", "t", "i", "o", "n", "s", " ", "p", "r", "o", "v", "i", "d", "e", "d">>>>]
    ELSE IF instructions_text.kind # "str" THEN [raised |-> TRUE, val |-> <<>>]
    ELSE IF Strip(instructions_text.str) = <<>>
    THEN [raised |-> FALSE, val |-> <<<<"N", "o", " ", "i", "n", "s", "t", "r", "u",
        "c", "t", "i", "o", "n", "s", " ", "p", "r", "o", "v", "i", "d", "e", "d">>>>]
    ELSE CHOOSE out \in
           {[raised |-> FALSE,
             val |-> IF steps = <<>> THEN <<Strip(instructions_text.str)>> ELSE steps] :
              steps \in
                {CHOOSE s \in {StepsOfText(instructions_text.str, byLine) :
                                 byLine \in {StepsOfLines(Split(instructions_text.str,
                                                                "\n"))}} : TRUE}} :
           TRUE

RECURSIVE TagsOfPieces(_)
TagsOfPieces(pieces) ==
    IF pieces = <<>> THEN <<>>
    ELSE (IF Strip(Head(pieces)) # <<>> THEN <<Str(Strip(Head(pieces)))>> ELSE <<>>)
         \o TagsOfPieces(Tail(pieces))

\* MealTags as it would be if the category were not added to the tags
MealTags_NoCategory(tags_text, category) ==
    IF NotText(tags_text) THEN [raised |-> TRUE, val |-> <<>>]
    ELSE LET tags == IF Falsy(tags_text) THEN <<>>
                     ELSE TagsOfPieces(Split(tags_text.str, ","))
         IN  [raised |-> FALSE, val |-> SubSeq(tags, 1,
             IF Len(tags) < 20 THEN Len(tags) ELSE 20)]

\* the tags of _transform_meal_to_recipe: the pieces of strTags, then the category
\* when it is not among them, cut to the first 20
MealTags(tags_text, category) ==
    IF NotText(tags_text) THEN [raised |-> TRUE, val |-> <<>>]
    ELSE LET tags == IF Falsy(tags_text) THEN <<>>
                     ELSE TagsOfPieces(Split(tags_text.str, ","))
             all == IF ~Falsy(category) /\ \A i \in 1..Len(tags) : tags[i] # category
                    THEN Append(tags, category) ELSE tags
         IN  [raised |-> FALSE, val |-> SubSeq(all, 1,
             IF Len(all) < 20 THEN Len(all) ELSE 20)]

\* TheMealDBAdapter._create_description
_create_description(meal) ==
    LET category == Get(meal.strCategory, Str(<<>>))
        area == Get(meal.strArea, Str(<<>>))
        first == IF ~Falsy(area) THEN <<"A", " ", "d", "e", "l", "i", "c", "i", "o",
            "u", "s", " ">> \o FText(area) \o <<" ", "d", "i", "s", "h">>
                 ELSE <<"A", " ", "d", "e", "l", "i", "c", "i", "o", "u", "s", " ",
                     "r", "e", "c", "i", "p", "e">>
        second == IF ~Falsy(category)
                  THEN <<<<"f", "r", "o", "m", " ", "t", "h", "e",
                      " ">> \o FText(category) \o <<" ", "c", "a", "t", "e", "g", "o",
                      "r", "y">>>>
                  ELSE <<>>
        third == <<"T", "h", "i", "s", " ">> \o FText(Get(meal.strMeal, Str(<<"r",
            "e", "c", "i", "p", "e">>)))
                 \o <<" ", "i", "s", " ", "s", "o", "u", "r", "c", "e", "d", " ", "f",
                     "r", "o", "m", " ", "T", "h", "e", "M", "e", "a", "l", "D", "B",
                     " ", "c", "o", "m", "m", "u", "n", "i", "t", "y", " ", "d", "a",
                     "t", "a", "b", "a", "s", "e", ".">>
        description == JoinSpace(<<first>> \o second \o <<third>>)
    IN  IF Len(description) < 10
        THEN <<"T", "h", "i", "s", " ", "i", "s", " ", "a", " ", "t", "r", "a", "d",
            "i", "t", "i", "o", "n", "a", "l", " ", "r", "e", "c", "i", "p", "e", " ",
            "f", "o", "r", " ">>
             \o FText(Get(meal.strMeal, Str(<<"t", "h", "i", "s", " ", "d", "i", "s",
                 "h">>))) \o <<" ", "f", "r", "o", "m", " ", "T", "h", "e", "M", "e",
                 "a", "l", "D", "B", ".">>
        ELSE description

\* TheMealDBAdapter._transform_meal_to_recipe, the clock reading t.  raised: an
\* exception leaves the function; reads: how many times the clock was read.
_transform_meal_to_recipe(meal, t) ==
    CHOOSE out \in
      {IF \/ ~meal.isObject
          \/ ingredients.raised \/ instructions.raised \/ tags.raised
       THEN [raised |-> TRUE, recipe |-> EmptyBody, reads |-> 0]
       ELSE [raised |-> FALSE, reads |-> 2,
             recipe |->
               [id |-> Get(meal.idMeal, Str(<<>>)),
                title |-> Get(meal.strMeal, Str(<<"U", "n", "k", "n", "o", "w", "n",
                    " ", "R", "e", "c", "i", "p", "e">>)),
                description |-> Str(_create_description(meal)),
                ingredients |-> StrList(ingredients.val),
                instructions |-> StrList(instructions.val),
                tags |-> List(tags.val),
                region |-> IF ~Falsy(area) THEN area ELSE Str(<<"I", "n", "t", "e",
                    "r", "n", "a", "t", "i", "o", "n", "a", "l">>),
                cuisine |-> IF ~Falsy(area) THEN area ELSE Str(<<"I", "n", "t", "e",
                    "r", "n", "a", "t", "i", "o", "n", "a", "l">>),
                created_at |-> Str(IsoFormat(t)),
                updated_at |-> Str(IsoFormat(t + 1)),
                source |-> Str(<<"e", "x", "t", "e", "r", "n", "a", "l">>)]] :
         area \in {Get(meal.strArea, Str(<<"I", "n", "t", "e", "r", "n", "a", "t",
             "i", "o", "n", "a", "l">>))},
         ingredients \in {_extract_ingredients(meal)},
         instructions \in
           {_parse_instructions(Get(meal.strInstructions, Str(<<>>)))},
         tags \in {MealTags(Get(meal.strTags, Str(<<>>)),
                            Get(meal.strCategory, Str(<<>>)))}} : TRUE

\* the loop of search_meals over the meals of the answer.  A meal whose
\* transformation raises is skipped; for a meal that is no object the handler of
\* that exception raises too (meal.get), which ends the loop with an exception.
\* Every transformed meal reads the clock twice, so the k-th of them reads it after
\* the 2 * (k - 1) readings of those before it.
TransformLoop(meals, t) ==
    IF \E i \in 1..Len(meals) : ~meals[i].isObject
    THEN [raised |-> TRUE, result |-> <<>>, now |-> t]
    ELSE CHOOSE out \in
           {[raised |-> FALSE,
             result |-> [k \in 1..Len(kept) |->
                           _transform_meal_to_recipe(meals[kept[k]],
                                                     t + 2 * (k - 1)).recipe],
             now |-> t + 2 * Len(kept)] :
              kept \in {SelectSeq([i \in 1..Len(meals) |-> i],
                                  LAMBDA i : ~_transform_meal_to_recipe(meals[i],
                                                                        t).raised)}} :
           TRUE

\* search_meals as it would be if only the two httpx exceptions were caught
search_meals_Uncaught(query, api, t) ==
    IF query = <<>> \/ Strip(query) = <<>>
    THEN [raised |-> FALSE, result |-> <<>>, contacted |-> FALSE, now |-> t]
    ELSE IF api.kind = "error"
    THEN [raised |-> TRUE, result |-> <<>>, contacted |-> TRUE, now |-> t]
    ELSE IF api.kind # "ok" \/ api.meals = <<>>
    THEN [raised |-> FALSE, result |-> <<>>, contacted |-> TRUE, now |-> t]
    ELSE CHOOSE out \in
           {[raised |-> r.raised, result |-> IF r.raised THEN <<>> ELSE r.result,
             contacted |-> TRUE, now |-> r.now] :
              r \in {TransformLoop(api.meals, t)}} : TRUE

\* TheMealDBAdapter.search_meals.  api is what the external API does with the
\* request: kind "timeout" (httpx.TimeoutException), "http_error" (any other
\* httpx.HTTPError, raise_for_status included), "error" (any other exception, such
\* as a body that is no JSON), or "ok" with the meals of the answer, <<>> for null or
\* an empty list.  contacted: the request was sent; raised: an exception leaves
\* search_meals, which every except clause of it rules out.
search_meals(query, api, t) ==
    IF query = <<>> \/ Strip(query) = <<>>
    THEN [raised |-> FALSE, result |-> <<>>, contacted |-> FALSE, now |-> t]
    ELSE IF api.kind # "ok" \/ api.meals = <<>>
    THEN [raised |-> FALSE, result |-> <<>>, contacted |-> TRUE, now |-> t]
    ELSE CHOOSE out \in
           {[raised |-> FALSE, result |-> IF r.raised THEN <<>> ELSE r.result,
             contacted |-> TRUE, now |-> r.now] :
              r \in {TransformLoop(api.meals, t)}} : TRUE

---------------------------------------------------------------------------
(* The metrics collector (app/services/metrics.py)                         *)
(*                                                                         *)
(* A duration is a whole number of thousandths of a millisecond, so that   *)
(* round(x, 2) is computed: it gives a multiple of 10.  A collector is     *)
(* [metrics, operation_stats, max_metrics]; operation_stats has the names  *)
(* recorded since the last clear as its domain, as the defaultdict does.   *)
(* The metadata of a metric, which the collector only stores, is left out. *)

\* round(num / den, 2) for num thousandths: the nearest multiple of 10, the even one
\* of two that are equally near
Round2(num, den) ==
    LET q == num \div (den * 10)
        r == num - q * den * 10
    IN  IF 2 * r < den * 10 THEN q * 10
        ELSE IF 2 * r > den * 10 THEN (q + 1) * 10
        ELSE IF q % 2 = 0 THEN q * 10 ELSE (q + 1) * 10

\* float('inf'), above every duration of the model
Infinity == 1000000000

MAX_METRICS == 1000

\* the value the defaultdict gives a name it has not seen; it has no avg_ms yet
DefaultStats ==
    [count |-> 0, total_ms |-> 0, min_ms |-> Infinity, max_ms |-> 0, avg_ms |-> -1]

NoStats == [n \in {} |-> DefaultStats]

\* MetricsCollector.__init__, and max_metrics as the caller sets it
NewCollector(max_metrics) ==
    [metrics |-> <<>>, operation_stats |-> NoStats, max_metrics |-> max_metrics]

\* self.metrics[-n:] for n >= 1
LastOf(xs, n) == IF Len(xs) > n THEN SubSeq(xs, Len(xs) - n + 1, Len(xs)) ELSE xs

\* the statistics of record for one more duration under a name
UpdatedStats(stats, duration_ms) ==
    LET count == stats.count + 1
        total == stats.total_ms + duration_ms
    IN  [count |-> count, total_ms |-> total,
         min_ms |-> IF duration_ms < stats.min_ms THEN duration_ms ELSE stats.min_ms,
         max_ms |-> IF duration_ms > stats.max_ms THEN duration_ms ELSE stats.max_ms,
         avg_ms |-> Round2(total, count)]

\* record as it would be without the trimming of the list
record_NoTrim(c, operation_type, operation_name, duration_ms, t) ==
    LET metric == [timestamp |-> t, operation_type |-> operation_type,
                   operation_name |-> operation_name,
                   duration_ms |-> Round2(duration_ms, 1)]
        stats == IF operation_name \in DOMAIN c.operation_stats
                 THEN c.operation_stats[operation_name] ELSE DefaultStats
    IN  [c EXCEPT
           !.metrics = Append(c.metrics, metric),
           !.operation_stats =
              [n \in DOMAIN c.operation_stats \cup {operation_name} |->
                 IF n = operation_name THEN UpdatedStats(stats, duration_ms)
                 ELSE c.operation_stats[n]]]

\* record as it would be if the statistics of a name restarted whenever the list
\* is trimmed
record_StatsOfRetained(c, operation_type, operation_name, duration_ms, t) ==
    LET metric == [timestamp |-> t, operation_type |-> operation_type,
                   operation_name |-> operation_name,
                   duration_ms |-> Round2(duration_ms, 1)]
        appended == Append(c.metrics, metric)
        trimmed == Len(appended) > c.max_metrics
        stats == IF operation_name \in DOMAIN c.operation_stats /\ ~trimmed
                 THEN c.operation_stats[operation_name] ELSE DefaultStats
    IN  [c EXCEPT
           !.metrics = IF trimmed THEN LastOf(appended, c.max_metrics) ELSE appended,
           !.operation_stats =
              [n \in DOMAIN c.operation_stats \cup {operation_name} |->
                 IF n = operation_name THEN UpdatedStats(stats, duration_ms)
                 ELSE c.operation_stats[n]]]

\* MetricsCollector.record, the clock reading t: the metric holds the rounded
\* duration, the statistics are updated with the duration as given, and the list
\* is cut to its last max_metrics entries
record(c, operation_type, operation_name, duration_ms, t) ==
    LET metric == [timestamp |-> t, operation_type |-> operation_type,
                   operation_name |-> operation_name,
                   duration_ms |-> Round2(duration_ms, 1)]
        appended == Append(c.metrics, metric)
        stats == IF operation_name \in DOMAIN c.operation_stats
                 THEN c.operation_stats[operation_name] ELSE DefaultStats
    IN  [c EXCEPT
           !.metrics = IF Len(appended) > c.max_metrics
                       THEN LastOf(appended, c.max_metrics) ELSE appended,
           !.operation_stats =
              [n \in DOMAIN c.operation_stats \cup {operation_name} |->
                 IF n = operation_name THEN UpdatedStats(stats, duration_ms)
                 ELSE c.operation_stats[n]]]

\* MetricsCollector.get_recent_metrics for limit >= 0: self.metrics[-limit:], and
\* the slice [-0:] is the whole list
get_recent_metrics(c, limit) ==
    IF limit = 0 THEN c.metrics ELSE LastOf(c.metrics, limit)

RECURSIVE SumDurations(_)
SumDurations(ms) ==
    IF ms = <<>> THEN 0 ELSE Head(ms).duration_ms + SumDurations(Tail(ms))

OfType(ms, operation_type) ==
    SelectSeq(ms, LAMBDA m : m.operation_type = operation_type)

\* one of the two averages of get_statistics
TypeAverage(ms) == IF ms # <<>> THEN Round2(SumDurations(ms), Len(ms)) ELSE 0

\* get_statistics as it would be if every metric were counted as internal
get_statistics_CountsAll(c) ==
    [internal_avg_ms |-> TypeAverage(c.metrics),
     internal_count |-> Len(c.metrics),
     external_avg_ms |-> TypeAverage(OfType(c.metrics, "external")),
     external_count |-> Len(OfType(c.metrics, "external")),
     operations |-> c.operation_stats,
     total_operations |-> Len(c.metrics)]

\* MetricsCollector.get_statistics
get_statistics(c) ==
    [internal_avg_ms |-> TypeAverage(OfType(c.metrics, "internal")),
     internal_count |-> Len(OfType(c.metrics, "internal")),
     external_avg_ms |-> TypeAverage(OfType(c.metrics, "external")),
     external_count |-> Len(OfType(c.metrics, "external")),
     operations |-> c.operation_stats,
     total_operations |-> Len(c.metrics)]

\* clear as it would be if only the list were emptied
clear_KeepsStats(c) == [c EXCEPT !.metrics = <<>>]

\* MetricsCollector.clear
clear(c) == [c EXCEPT !.metrics = <<>>, !.operation_stats = NoStats]

---------------------------------------------------------------------------
(* Responses (app/error_handlers.py)                                       *)
(*                                                                         *)
(* One record shape for every response: status, the error body's fields    *)
(* (error, error_code, details.requested_id, details.error_count,          *)
(* validation_errors, validation_error_count) and the success body's       *)
(* (success, data as a sequence of recipes, data.deleted_recipe_id,        *)
(* data.imported_count, the meta keys).  -1 and <<>> stand for a key the   *)
(* body does not carry.  The list data.recipes of GET /api/recipes is      *)
(* recipes, the stored recipes it starts with (the store keeps no order    *)
(* the model follows, so they are a set), and external, the recipes of     *)
(* the external API that follow them.                                      *)

NoResponse ==
    [status |-> 0, success |-> FALSE, error |-> FALSE, error_code |-> "",
     has_details |-> FALSE, requested_id |-> <<>>, error_count |-> -1,
     validation_errors |-> <<>>, validation_error_count |-> -1,
     data |-> <<>>, deleted_recipe_id |-> <<>>, imported_count |-> -1,
     total_recipes_in_file |-> -1, successfully_imported |-> -1,
     count |-> -1, action |-> "",
     recipes |-> {}, external |-> <<>>, internal_count |-> -1,
     external_count |-> -1, has_search |-> FALSE]

\* create_error_response: details and validation_errors only when non-empty
create_error_response(status_code, error_code, details, validation_errors) ==
    [NoResponse EXCEPT
       !.status = status_code, !.error = TRUE, !.error_code = error_code,
       !.has_details = details.has,
       !.requested_id = details.requested_id,
       !.error_count = details.error_count,
       !.validation_errors = validation_errors,
       !.validation_error_count =
          IF validation_errors # <<>> THEN Len(validation_errors) ELSE -1]

NoDetails == [has |-> FALSE, requested_id |-> <<>>, error_count |-> -1]

\* a details dict with other keys than the two the model follows
OtherDetails == [has |-> TRUE, requested_id |-> <<>>, error_count |-> -1]

create_validation_error_response(validation_result) ==
    create_error_response(422, "validation_failed",
        [has |-> TRUE, requested_id |-> <<>>,
         error_count |-> Len(validation_result.errors)],
        validation_result.errors)

\* create_not_found_error_response as it would be if details were left empty
create_not_found_error_response_NoId(resource_id) ==
    create_error_response(404, "not_found", NoDetails, <<>>)

create_not_found_error_response(resource_id) ==
    create_error_response(404, "not_found",
        IF resource_id # <<>>
        THEN [has |-> TRUE, requested_id |-> resource_id, error_count |-> -1]
        ELSE NoDetails,
        <<>>)

create_bad_request_error_response ==
    create_error_response(400, "bad_request", OtherDetails, <<>>)

create_server_error_response ==
    create_error_response(500, "internal_server_error", OtherDetails, <<>>)

create_file_error_response ==
    create_error_response(400, "file_error", OtherDetails, <<>>)

handle_pydantic_validation_error(errs) ==
    create_error_response(422, "pydantic_validation_error", NoDetails, errs)

\* create_success_response, sent with the status code of the route
create_success_response(status_code) ==
    [NoResponse EXCEPT !.status = status_code, !.success = TRUE]

---------------------------------------------------------------------------
(* The handlers (app/routes/api.py).  Each yields the response and the     *)
(* store, the identifier counter and the clock it leaves.                  *)

Outcome(resp, store, uuid, t) == [resp |-> resp, store |-> store, uuid |-> uuid, now |-> t]

\* the loop of get_recipes over the adapter's dicts: Recipe(**recipe_data), the
\* dicts the model refuses skipped
RECURSIVE ExternalRecipes(_)
ExternalRecipes(found) ==
    IF found = <<>> THEN <<>>
    ELSE LET data == Head(found)
             m == RecipeModel(data, <<>>,
                              FromIsoFormat(data.created_at.str),
                              FromIsoFormat(data.updated_at.str))
         IN  (IF m.ok THEN <<m.val>> ELSE <<>>) \o ExternalRecipes(Tail(found))

\* the numbers of recipes of a source in the list of a response
CountSource(stored, external, source) ==
    Cardinality({r \in stored : r.source = source})
    + Cardinality({i \in 1..Len(external) : external[i].source = source})

NoCalls == [searched |-> FALSE, adapter |-> FALSE, contacted |-> FALSE, raised |-> FALSE]

\* the success response of get_recipes for a list of recipes
RecipesResponse(stored, external, search) ==
    CHOOSE out \in
      {[create_success_response(200) EXCEPT
          !.recipes = stored, !.external = all_external,
          !.count = Cardinality(stored) + Len(all_external),
          !.internal_count = CountSource(stored, all_external, "internal"),
          !.external_count = CountSource(stored, all_external, "external"),
          !.has_search = search.kind # "absent"] :
         all_external \in {external}} : TRUE

\* get_recipes as it would be if an invalid search were only logged
get_recipes_NoCheck(store, search, api, uuid, t) ==
    IF search.kind = "str" /\ search.str # <<>>
    THEN CHOOSE out \in
           {[resp |-> IF found.raised THEN create_server_error_response
                      ELSE RecipesResponse(internal_recipes,
                                           ExternalRecipes(found.result), search),
             store |-> store, uuid |-> uuid, now |-> found.now,
             calls |-> [searched |-> TRUE, adapter |-> TRUE,
                        contacted |-> found.contacted, raised |-> found.raised],
             found |-> found.result] :
              internal_recipes \in {storage_search_recipes(store, search.str)},
              found \in {search_meals(search.str, api, t)}} : TRUE
    ELSE [resp |-> RecipesResponse(storage_get_all_recipes(store), <<>>, search),
          store |-> store, uuid |-> uuid, now |-> t, calls |-> NoCalls,
          found |-> <<>>]

\* GET /api/recipes: search is Absent without the parameter, Str(q) with it; api is
\* what the external API does if it is asked.  calls: whether the store search and
\* the adapter were invoked, the API contacted, and an exception left the adapter
\* (the handler answers 500 to any exception); found: what the adapter returned.
get_recipes(store, search, api, uuid, t) ==
    LET validation_result == validate_search_query(search)
    IN  IF search.kind # "absent" /\ ~validation_result.is_valid
        THEN [resp |-> create_validation_error_response(validation_result),
              store |-> store, uuid |-> uuid, now |-> t, calls |-> NoCalls,
              found |-> <<>>]
        ELSE IF search.kind = "str" /\ search.str # <<>>
        THEN CHOOSE out \in
               {[resp |-> IF found.raised THEN create_server_error_response
                          ELSE RecipesResponse(internal_recipes,
                                               ExternalRecipes(found.result),
                                               search),
                 store |-> store, uuid |-> uuid, now |-> found.now,
                 calls |-> [searched |-> TRUE, adapter |-> TRUE,
                            contacted |-> found.contacted, raised |-> found.raised],
                 found |-> found.result] :
                  internal_recipes \in {storage_search_recipes(store, search.str)},
                  found \in {search_meals(search.str, api, t)}} : TRUE
        ELSE [resp |-> RecipesResponse(storage_get_all_recipes(store), <<>>, search),
              store |-> store, uuid |-> uuid, now |-> t, calls |-> NoCalls,
              found |-> <<>>]

\* GET /api/recipes/{recipe_id}
get_recipe(store, recipe_id, uuid, t) ==
    LET validation_result == validate_recipe_id(recipe_id)
        recipe == storage_get_recipe(store, recipe_id)
    IN  IF ~validation_result.is_valid
        THEN Outcome(create_validation_error_response(validation_result), store, uuid, t)
        ELSE IF recipe = <<>>
        THEN Outcome(create_not_found_error_response(recipe_id), store, uuid, t)
        ELSE Outcome([create_success_response(200) EXCEPT !.data = recipe],
                     store, uuid, t)

\* POST /api/recipes
create_recipe(store, recipe_data, uuid, t) ==
    LET validation_result == validate_recipe_create(recipe_data)
        recipe_create == RecipeCreate(recipe_data)
        created == storage_create_recipe(store, recipe_create.val, uuid, t)
    IN  IF ~validation_result.is_valid
        THEN Outcome(create_validation_error_response(validation_result), store, uuid, t)
        ELSE IF ~recipe_create.ok
        THEN Outcome(handle_pydantic_validation_error(recipe_create.errs), store, uuid, t)
        ELSE IF created.raised
        THEN Outcome(create_server_error_response, store, uuid, t)
        ELSE Outcome([create_success_response(201) EXCEPT
                        !.data = created.recipe, !.action = "create"],
                     created.store, created.uuid, created.now)

\* update_recipe as it would be if the body were validated before the lookup
update_recipe_BodyFirst(store, recipe_id, recipe_data, uuid, t) ==
    LET id_validation == validate_recipe_id(recipe_id)
        existing_recipe == storage_get_recipe(store, recipe_id)
        validation_result == validate_recipe_update(recipe_data)
        recipe_update == RecipeUpdate(recipe_data)
        updated == storage_update_recipe(store, recipe_id, recipe_update.val, t)
    IN  IF ~id_validation.is_valid
        THEN Outcome(create_validation_error_response(id_validation), store, uuid, t)
        ELSE IF ~validation_result.is_valid
        THEN Outcome(create_validation_error_response(validation_result), store, uuid, t)
        ELSE IF existing_recipe = <<>>
        THEN Outcome(create_not_found_error_response(recipe_id), store, uuid, t)
        ELSE Outcome([create_success_response(200) EXCEPT
                        !.data = updated.result, !.action = "update"],
                     updated.store, uuid, updated.now)

\* PUT /api/recipes/{recipe_id}
update_recipe(store, recipe_id, recipe_data, uuid, t) ==
    LET id_validation == validate_recipe_id(recipe_id)
        existing_recipe == storage_get_recipe(store, recipe_id)
        validation_result == validate_recipe_update(recipe_data)
        recipe_update == RecipeUpdate(recipe_data)
        updated == storage_update_recipe(store, recipe_id, recipe_update.val, t)
    IN  IF ~id_validation.is_valid
        THEN Outcome(create_validation_error_response(id_validation), store, uuid, t)
        ELSE IF existing_recipe = <<>>
        THEN Outcome(create_not_found_error_response(recipe_id), store, uuid, t)
        ELSE IF ~validation_result.is_valid
        THEN Outcome(create_validation_error_response(validation_result), store, uuid, t)
        ELSE IF ~recipe_update.ok
        THEN Outcome(handle_pydantic_validation_error(recipe_update.errs), store, uuid, t)
        ELSE Outcome([create_success_response(200) EXCEPT
                        !.data = updated.result, !.action = "update"],
                     updated.store, uuid, updated.now)

\* DELETE /api/recipes/{recipe_id}
delete_recipe(store, recipe_id, uuid, t) ==
    LET validation_result == validate_recipe_id(recipe_id)
        existing_recipe == storage_get_recipe(store, recipe_id)
        deleted == storage_delete_recipe(store, recipe_id)
    IN  IF ~validation_result.is_valid
        THEN Outcome(create_validation_error_response(validation_result), store, uuid, t)
        ELSE IF existing_recipe = <<>>
        THEN Outcome(create_not_found_error_response(recipe_id), store, uuid, t)
        ELSE IF ~deleted.success
        THEN Outcome(create_server_error_response, store, uuid, t)
        ELSE Outcome([create_success_response(200) EXCEPT
                        !.deleted_recipe_id = recipe_id, !.action = "delete"],
                     deleted.store, uuid, t)

\* POST /api/recipes/import
import_recipes(store, file, uuid, t) ==
    LET validation_result == validate_import_data(file.isList, file.entries)
        imported == storage_import_recipes(store, file.entries, uuid, t)
    IN  IF ~EndsWith(file.filename, <<".", "j", "s", "o", "n">>)
        THEN Outcome(create_file_error_response, store, uuid, t)
        ELSE IF file.size > MAX_FILE_SIZE
        THEN Outcome(create_file_error_response, store, uuid, t)
        ELSE IF file.parse = "malformed"
        THEN Outcome(create_bad_request_error_response, store, uuid, t)
        ELSE IF file.parse = "undecodable"
        THEN Outcome(create_server_error_response, store, uuid, t)
        ELSE IF ~validation_result.is_valid
        THEN Outcome(create_validation_error_response(validation_result), store, uuid, t)
        ELSE Outcome([create_success_response(201) EXCEPT
                        !.imported_count = imported.count,
                        !.total_recipes_in_file = Len(file.entries),
                        !.successfully_imported = imported.count,
                        !.action = "import"],
                     imported.store, imported.uuid, imported.now)

---------------------------------------------------------------------------
(* Requests                                                                *)
(*                                                                         *)
(* The bodies, ids and files the clients send.  Soup is a body every check *)
(* accepts; Stew is accepted too and carries surrounding blanks and no     *)
(* tags; the others each break one rule.                                   *)

Soup ==
    [EmptyBody EXCEPT
       !.title = Str(<<"S","o","u","p">>),
       !.description = Str(<<"T","o","m","a","t","o"," ","s","o","u","p">>),
       !.ingredients = StrList(<<<<"t","o","m","a","t","o">>>>),
       !.instructions = StrList(<<<<"B","o","i","l"," ","i","t">>>>),
       !.tags = StrList(<<<<"h","o","t">>>>),
       !.region = Str(<<"I","t","a","l","y">>),
       !.cuisine = Str(<<"I","t","a","l","i","a","n">>)]

Stew ==
    [EmptyBody EXCEPT
       !.title = Str(<<" "," ","S","t","e","w"," ">>),
       !.description = Str(<<" ","B","e","e","f"," ","s","t","e","w",","," ","s","l","o","w","."," ">>),
       !.ingredients = StrList(<<<<" ","b","e","e","f"," ">>, <<"s","a","l","t">>>>),
       !.instructions = StrList(<<<<" ","S","i","m","m","e","r","."," ">>>>),
       !.region = Str(<<" ","E","U"," ">>),
       !.cuisine = Str(<<"F","r","e","n","c","h">>)]

ShortTitle == [Soup EXCEPT !.title = Str(<<"a","b">>)]

PaddedShortTitle == [Soup EXCEPT !.title = Str(<<" ","a"," ">>)]

BlankTitle == [Soup EXCEPT !.title = Str(<<" "," "," ">>)]

LongTitle == [Soup EXCEPT !.title = Str(Rep("a", MAX_TITLE_LENGTH + 1))]

MissingTitle == [Soup EXCEPT !.title = Absent]

ShortDescription == [Soup EXCEPT !.description = Str(<<"t","o","o"," ","s","h","o","r","t">>)]

NoIngredients == [Soup EXCEPT !.ingredients = List(<<>>)]

BlankIngredient == [Soup EXCEPT !.ingredients = StrList(<<<<"t","o","m","a","t","o">>, <<" "," "," ">>>>)]

NoInstructions == [Soup EXCEPT !.instructions = List(<<>>)]

ShortStep == [Soup EXCEPT !.instructions = StrList(<<<<"B","o","i","l"," ","i","t">>, <<"B","o","i","l">>>>)]

MissingInstructions == [Soup EXCEPT !.instructions = Absent]

BlankRegion == [Soup EXCEPT !.region = Str(<<" "," "," ">>)]

MissingCuisine == [Soup EXCEPT !.cuisine = Absent]

NumberTitle == [Soup EXCEPT !.title = Num]

BlankTag == [Soup EXCEPT !.tags = StrList(<<<<"h","o","t">>, <<" "," "," ">>>>)]

NullTags == [Soup EXCEPT !.tags = Null]

ValidBodies == {Soup, Stew}

InvalidBodies ==
    {ShortTitle, PaddedShortTitle, BlankTitle, LongTitle, MissingTitle,
     ShortDescription, NoIngredients, BlankIngredient, NoInstructions, ShortStep,
     MissingInstructions, BlankRegion, MissingCuisine, NumberTitle, BlankTag,
     NullTags}

Bodies == ValidBodies \cup InvalidBodies

\* bodies of PUT requests
UpdateBodies == {Soup, Stew, ShortTitle, PaddedShortTitle, MissingCuisine}

\* a well-formed id no recipe is stored under (tests/test_api.py)
UnknownId ==
    <<"5","5","0","e","8","4","0","0","-","e","2","9","b","-","4","1","d","4","-","a","7","1","6","-","4","4","6","6","5","5","4","4","0","0","0","0">>

\* ids validate_recipe_id refuses
MalformedId == <<"a"," ","b","!">>

BlankId == <<" "," ">>

\* a well-formed id that is no uuid
CustomId == <<"m","y","_","r","e","c","i","p","e","-","1">>

\* the ids requests are sent for: the stored ones and some that are not
RequestIds(store) == DOMAIN store \cup {DefaultId, UnknownId, MalformedId, BlankId}

\* Entries of import files: recipe objects that carry keys the Recipe model
\* declares beyond the seven of RecipeCreate
WithId(body, id) == [body EXCEPT !.id = Str(id)]

ExternalEntry ==
    [WithId(Soup, CustomId) EXCEPT
       !.source = Str(<<"e","x","t","e","r","n","a","l">>),
       !.created_at = Str(IsoFormat(0)), !.updated_at = Str(IsoFormat(1))]

BogusSourceEntry == [Soup EXCEPT !.source = Str(<<"b","o","g","u","s">>)]

NumberIdEntry == [Soup EXCEPT !.id = Num]

BadDateEntry == [Stew EXCEPT !.created_at = Str(<<"y","e","s","t","e","r","d","a","y">>)]

NullDateEntry == [Stew EXCEPT !.updated_at = Null]

JsonFile(entries) ==
    [filename |-> <<"r",".","j","s","o","n">>, size |-> 1024,
     parse |-> "ok", isList |-> TRUE, entries |-> entries]

\* files the import stores recipes from; an id a file names is one a client can
\* know: a fixed one, or a uuid the store has handed out (uuid < the counter)
AcceptedFiles(uuid) ==
    {JsonFile(<<Entry(Soup)>>),
     JsonFile(<<Entry(Stew), Entry(Soup)>>),
     JsonFile(<<Entry(WithId(Stew, DefaultId)), Entry(ExternalEntry)>>),
     JsonFile(<<Entry(WithId(Soup, CustomId)), Entry(WithId(Stew, CustomId))>>),
     JsonFile(<<Entry(WithId(Soup, MalformedId))>>),
     JsonFile(<<Entry(BogusSourceEntry)>>),
     JsonFile(<<Entry(Soup), Entry(NumberIdEntry)>>),
     JsonFile(<<Entry(BadDateEntry), Entry(WithId(Soup, CustomId))>>),
     JsonFile(<<Entry(NullDateEntry)>>)}
    \cup {JsonFile(<<Entry(WithId(Stew, Uuid(n)))>>) : n \in 1..(uuid - 1)}

\* files the import refuses
RejectedFiles ==
    {[JsonFile(<<Entry(Soup)>>) EXCEPT !.filename = <<"r",".","t","x","t">>],
     [JsonFile(<<Entry(Soup)>>) EXCEPT !.filename = <<"r",".","J","S","O","N">>],
     [JsonFile(<<Entry(Soup)>>) EXCEPT !.size = MAX_FILE_SIZE + 1],
     [JsonFile(<<>>) EXCEPT !.parse = "malformed"],
     [JsonFile(<<>>) EXCEPT !.parse = "undecodable"],
     [JsonFile(<<>>) EXCEPT !.isList = FALSE],
     JsonFile(<<>>),
     JsonFile([i \in 1..(MAX_IMPORT_RECIPES + 1) |-> Entry(Soup)]),
     JsonFile(<<Entry(Soup), NonObjectEntry>>),
     JsonFile(<<Entry(Soup), Entry(ShortTitle)>>),
     JsonFile(<<Entry(MissingCuisine)>>)}

Files(uuid) == AcceptedFiles(uuid) \cup RejectedFiles

NoFile == [JsonFile(<<>>) EXCEPT !.filename = <<>>]

---------------------------------------------------------------------------
(* Searches, and what the external API answers                             *)

ApiAnswer(meals) == [kind |-> "ok", meals |-> meals]

ApiFailure(kind) == [kind |-> kind, meals |-> <<>>]

FailingApis == {ApiFailure("timeout"), ApiFailure("http_error"), ApiFailure("error")}

MixedAnswer == ApiAnswer(<<ShortNameMeal, NumberTagsMeal, ChickenSoup>>)

\* the answers of the API: failures, no meals, meals of which the transformation or
\* the Recipe model refuses some, and a list with an element that is no object
Apis ==
    FailingApis
    \cup {ApiAnswer(<<>>),
          MixedAnswer,
          ApiAnswer(<<ShortNameMeal, ChickenSoup, NotObjectMeal>>)}

InvalidSearches == {Str(<<>>), Str(<<" ", " ">>), Str(Rep("a",
    MAX_SEARCH_LENGTH + 1))}

ValidSearches == {Str(<<"S", "O", "U", "P">>), Str(<<"t", "e">>), Str(Rep("a",
    MAX_SEARCH_LENGTH))}

\* the requests GET /api/recipes is sent: without a search, with an invalid one, and
\* with a valid one and a behaviour of the API
SearchRequests ==
    {[search |-> s, api |-> MixedAnswer] :
        s \in {Absent} \cup InvalidSearches}
    \cup {[search |-> Str(<<"S", "O", "U", "P">>), api |-> a] : a \in Apis}
    \cup {[search |-> Str(<<"t", "e">>), api |-> a] :
             a \in {ApiFailure("timeout"),
                    MixedAnswer}}
    \cup {[search |-> Str(Rep("a", MAX_SEARCH_LENGTH)), api |-> ApiAnswer(<<>>)]}

\* the calls of search_meals: an empty or blank query, and a query with every
\* behaviour of the API
AdapterCalls ==
    {[query |-> q, api |-> MixedAnswer] :
        q \in {<<>>, <<" ", "\t">>}}
    \cup {[query |-> <<"s", "o", "u", "p">>, api |-> a] : a \in Apis}

\* The payloads the validators are called with beyond the bodies above: each of
\* the four fields takes a value every check accepts and values the schema and
\* the hand-written checks may judge differently.
PayloadTitles == {Soup.title, Str(<<" ", "a", " ">>), Str(<<>>), Null}

PayloadIngredients == {Soup.ingredients, StrList(<<<<"x">>>>), List(<<>>), Absent}

PayloadTags == {Soup.tags, StrList(<<<<"h", "o", "t">>, <<" ", " ", " ">>>>), Null,
    Absent}

PayloadRegions == {Soup.region, Str(<<" ", "X", " ">>), Absent}

Payloads ==
    {[Soup EXCEPT !.title = title, !.ingredients = ingredients, !.tags = tags,
                  !.region = region] :
        title \in PayloadTitles, ingredients \in PayloadIngredients,
        tags \in PayloadTags, region \in PayloadRegions}
    \cup Bodies

\* the ids validate_recipe_id is called with
PayloadIds == {DefaultId, UnknownId, MalformedId, BlankId, CustomId, <<>>,
               Rep("a", MAX_ID_LENGTH + 1)}

\* the search texts validate_search_query is called with
PayloadSearches == {Absent, Num} \cup InvalidSearches \cup ValidSearches

---------------------------------------------------------------------------
(* The state machine                                                       *)
(*                                                                         *)
(* recipes   RecipeStorage.recipes                                         *)
(* nextUuid  how many uuid4 identifiers have been drawn, plus one          *)
(* now       the next reading of the clock                                 *)
(* last      the request being answered and its response; op "none"       *)
(*           between requests                                              *)
(* prev      the store as the request of last found it                     *)
(* posted    for every id a POST /api/recipes answered 201 with, and that  *)
(*           no DELETE and no import has removed since: the title of that  *)
(*           answer, and whether a PUT has succeeded on the id since       *)
(* writes    how many requests have changed the store, the identifier      *)
(*           counter or the clock                                          *)
(*                                                                         *)
(* The handlers are synchronous and run one at a time: a request is one    *)
(* step, the delivery of its response the next.                            *)
(*                                                                         *)
(* Spec has every request but the searches, which SearchSpec has with      *)
(* fewer of the other requests.  collector, recorded and probe belong to   *)
(* the specifications further below.  The store and the adapter write the  *)
(* metrics collector and nothing of the application reads it back, so Spec *)
(* does not follow it: MetricsSpec does, with record called with any       *)
(* arguments.                                                              *)

MaxWrites == 3

NoRequest ==
    [op |-> "none", id |-> <<>>, body |-> EmptyBody, file |-> NoFile,
     resp |-> NoResponse, search |-> Absent, api |-> ApiAnswer(<<>>),
     calls |-> NoCalls, found |-> <<>>]

NoPosts == [k \in {} |-> [title |-> <<>>, updated |-> FALSE]]

NotFollowed == "not followed"

Init ==
    /\ recipes = InitialStore
    /\ nextUuid = 1
    /\ now = 2
    /\ last = NoRequest
    /\ prev = InitialStore
    /\ posted = NoPosts
    /\ writes = 0
    /\ collector = NotFollowed
    /\ recorded = NotFollowed
    /\ probe = NotFollowed

\* what the answered request makes of posted
Posted(op, id, resp) ==
    IF op = "create" /\ resp.status = 201
    THEN [k \in DOMAIN posted \cup {resp.data[1].id} |->
            IF k = resp.data[1].id
            THEN [title |-> resp.data[1].title, updated |-> FALSE]
            ELSE posted[k]]
    ELSE IF op = "delete" /\ resp.status = 200
    THEN [k \in DOMAIN posted \ {id} |-> posted[k]]
    ELSE IF op = "import" /\ resp.status = 201
    THEN NoPosts
    ELSE IF op = "update" /\ resp.status = 200
    THEN [k \in DOMAIN posted |->
            IF k = id THEN [posted[k] EXCEPT !.updated = TRUE] ELSE posted[k]]
    ELSE posted

\* the request req runs to its outcome
Reply(req, out) ==
    LET changed == out.store # recipes \/ out.uuid # nextUuid \/ out.now # now
    IN  /\ last.op = "none"
        /\ changed => writes < MaxWrites
        /\ recipes' = out.store
        /\ nextUuid' = out.uuid
        /\ now' = out.now
        /\ last' = [req EXCEPT !.resp = out.resp]
        /\ prev' = recipes
        /\ posted' = Posted(req.op, req.id, out.resp)
        /\ writes' = IF changed THEN writes + 1 ELSE writes
        /\ UNCHANGED <<collector, recorded, probe>>

\* a handler runs to its response
Answer(op, id, body, file, out) ==
    Reply([NoRequest EXCEPT !.op = op, !.id = id, !.body = body, !.file = file], out)

\* GET /api/recipes, started when no response is awaited
GetRecipes(search, api) ==
    /\ last.op = "none"
    /\ \E out \in {get_recipes(recipes, search, api, nextUuid, now)} :
       Reply([NoRequest EXCEPT !.op = "list", !.search = search, !.api = api,
                               !.calls = out.calls, !.found = out.found],
             out)

\* themealdb_adapter.search_meals called by itself
SearchMeals(query, api) ==
    /\ last.op = "none"
    /\ \E r \in {search_meals(query, api, now)} :
       Reply([NoRequest EXCEPT !.op = "search_meals", !.search = Str(query),
                               !.api = api, !.found = r.result,
                               !.calls = [searched |-> FALSE, adapter |-> TRUE,
                                          contacted |-> r.contacted,
                                          raised |-> r.raised]],
             [resp |-> NoResponse, store |-> recipes, uuid |-> nextUuid,
              now |-> r.now])

GetRecipe(id) ==
    Answer("get", id, EmptyBody, NoFile, get_recipe(recipes, id, nextUuid, now))

CreateRecipe(body) ==
    Answer("create", <<>>, body, NoFile, create_recipe(recipes, body, nextUuid, now))

UpdateRecipe(id, body) ==
    Answer("update", id, body, NoFile, update_recipe(recipes, id, body, nextUuid,
        now))

DeleteRecipe(id) ==
    Answer("delete", id, EmptyBody, NoFile, delete_recipe(recipes, id, nextUuid, now))

ImportRecipes(file) ==
    Answer("import", <<>>, EmptyBody, file, import_recipes(recipes, file, nextUuid,
        now))

\* the response is sent
Deliver ==
    /\ last.op # "none"
    /\ last' = NoRequest
    /\ prev' = recipes
    /\ UNCHANGED <<recipes, nextUuid, now, posted, writes, collector, recorded,
        probe>>

Next ==
    \/ GetRecipes(Absent, ApiAnswer(<<>>))
    \/ \E id \in RequestIds(recipes) : GetRecipe(id)
    \/ \E body \in Bodies : CreateRecipe(body)
    \/ \E id \in RequestIds(recipes), body \in UpdateBodies : UpdateRecipe(id, body)
    \/ \E id \in RequestIds(recipes) : DeleteRecipe(id)
    \/ \E file \in Files(nextUuid) : ImportRecipes(file)
    \/ Deliver

Spec == Init /\ [][Next]_vars

---------------------------------------------------------------------------
(* Searches: GET /api/recipes?search=q and the adapter, over stores made   *)
(* by a few creations, deletions and one import                            *)

\* a file that holds a recipe marked external
ExportedFile == JsonFile(<<Entry(WithId(Stew, DefaultId)), Entry(ExternalEntry)>>)

SearchNext ==
    \/ \E r \in SearchRequests : GetRecipes(r.search, r.api)
    \/ \E c \in AdapterCalls : SearchMeals(c.query, c.api)
    \/ \E body \in ValidBodies : CreateRecipe(body)
    \/ \E id \in DOMAIN recipes : DeleteRecipe(id)
    \/ ImportRecipes(ExportedFile)
    \/ Deliver

SearchSpec == Init /\ [][SearchNext]_vars

---------------------------------------------------------------------------
(* The metrics collector by itself                                         *)
(*                                                                         *)
(* collector  a MetricsCollector whose max_metrics is the 1000 of its      *)
(*            constructor or a limit the caller has set before the first   *)
(*            record, as the tests do                                      *)
(* recorded   since: the record calls since the last clear, as the         *)
(*            arguments they were given; cleared: the last call was clear; *)
(*            dropped: the names that had statistics when clear was last   *)
(*            called; total: the record calls so far                       *)

MaxRecords == 3

MaxLimit == 2

\* operation types and names as the store and the adapter record them, and a type
\* that is neither internal nor external
Operations ==
    {[type |-> "internal", name |-> "search_recipes"],
     [type |-> "internal", name |-> "create_recipe"],
     [type |-> "external", name |-> "search_meals"],
     [type |-> "cache", name |-> "search_recipes"]}

\* durations in thousandths of a millisecond: 0.004 ms, which a timer's rounding
\* does not give, 0.04 ms and 0.08 ms
Durations == {4, 40, 80}

MetricsInit ==
    /\ collector \in {NewCollector(n) : n \in (1..MaxLimit) \cup {MAX_METRICS}}
    /\ recorded = [since |-> <<>>, cleared |-> FALSE, dropped |-> {}, total |-> 0]
    /\ now = 0
    /\ recipes = EmptyStore
    /\ nextUuid = 1
    /\ last = NoRequest
    /\ prev = EmptyStore
    /\ posted = NoPosts
    /\ writes = 0
    /\ probe = NotFollowed

Record(operation_type, operation_name, duration_ms) ==
    /\ recorded.total < MaxRecords
    /\ collector' = record(collector, operation_type, operation_name, duration_ms, now)
    /\ recorded' = [since |-> Append(recorded.since,
                                     [timestamp |-> now,
                                      operation_type |-> operation_type,
                                      operation_name |-> operation_name,
                                      duration_ms |-> duration_ms]),
                    cleared |-> FALSE, dropped |-> recorded.dropped,
                    total |-> recorded.total + 1]
    /\ now' = now + 1
    /\ UNCHANGED <<recipes, nextUuid, last, prev, posted, writes, probe>>

Clear ==
    /\ ~recorded.cleared
    /\ collector' = clear(collector)
    /\ recorded' = [recorded EXCEPT !.since = <<>>, !.cleared = TRUE,
                                     !.dropped = DOMAIN collector.operation_stats]
    /\ UNCHANGED <<recipes, nextUuid, now, last, prev, posted, writes, probe>>

MetricsNext ==
    \/ \E o \in Operations, d \in Durations : Record(o.type, o.name, d)
    \/ Clear

MetricsSpec == MetricsInit /\ [][MetricsNext]_vars

---------------------------------------------------------------------------
(* Properties                                                              *)

Resp == last.resp

\* GET /api/recipes/{k} sent now
GetNow(k) == get_recipe(recipes, k, nextUuid, now).resp

\* DELETE /api/recipes/{k} sent now
DeleteNow(k) == delete_recipe(recipes, k, nextUuid, now).resp

WellFormed(id) == validate_recipe_id(id).is_valid

\* the fields the validation errors of the response name
NamedFields == {Resp.validation_errors[i].field : i \in 1..Len(Resp.validation_errors)}

\* C1 as stated: a recipe a POST answered 201 with stays in the store, and GET on its
\* id answers 200 with the id and the title of that answer, until a DELETE of the id
\* or an import.
C1_PostedReadableSameTitle ==
    \A k \in DOMAIN posted :
        /\ k \in DOMAIN recipes
        /\ GetNow(k).status = 200
        /\ GetNow(k).data[1].id = k
        /\ GetNow(k).data[1].title = posted[k].title

\* C1, amended: a recipe a POST answered 201 with stays in the store, and GET on its
\* id answers 200 with that id, until a DELETE of the id or an import; the title GET
\* returns is the title of the POST's answer as long as no PUT has replaced it.
C1_PostedReadable ==
    \A k \in DOMAIN posted :
        /\ k \in DOMAIN recipes
        /\ GetNow(k).status = 200
        /\ GetNow(k).data[1].id = k
        /\ ~posted[k].updated => GetNow(k).data[1].title = posted[k].title

\* a posted recipe a later PUT has given another title, with another POST answered
C1_Witness ==
    /\ last.op = "create"
    /\ Resp.status = 201
    /\ \E k \in DOMAIN posted :
          /\ posted[k].updated
          /\ recipes[k].title # posted[k].title
          /\ k # Resp.data[1].id

\* The rules C2 names, read off a body: the fields whose submitted value breaks one.
TextOf(v) == IF v.kind = "str" THEN Strip(v.str) ELSE <<>>

HasBlankItem(v) ==
    v.kind = "list" /\ \E i \in 1..Len(v.items) :
        v.items[i].kind = "str" /\ Strip(v.items[i].str) = <<>>

BrokenRules(body) ==
    {f \in {"title", "description", "ingredients", "instructions", "region", "cuisine"} :
        body[f].kind = "absent"}
    \cup {f \in {"title", "description", "region", "cuisine"} :
            body[f].kind = "str" /\ Strip(body[f].str) = <<>>}
    \cup {f \in {"ingredients", "instructions", "tags"} : HasBlankItem(body[f])}
    \cup {f \in {"ingredients", "instructions"} :
            body[f].kind = "list" /\ body[f].items = <<>>}
    \cup (IF body.title.kind = "str" /\ Len(TextOf(body.title)) < 3
          THEN {"title"} ELSE {})
    \cup (IF body.description.kind = "str" /\ Len(TextOf(body.description)) < 10
          THEN {"description"} ELSE {})
    \cup (IF /\ body.instructions.kind = "list"
             /\ \E i \in 1..Len(body.instructions.items) :
                   /\ body.instructions.items[i].kind = "str"
                   /\ Len(Strip(body.instructions.items[i].str)) < 5
          THEN {"instructions"} ELSE {})

\* C2: POST /api/recipes with a body that breaks a field rule answers 422 with a
\* non-empty validation_errors list that names every offending field, and leaves the
\* store as it was.
C2_InvalidCreateRejected ==
    (last.op = "create" /\ BrokenRules(last.body) # {}) =>
        /\ Resp.status = 422
        /\ Resp.validation_errors # <<>>
        /\ BrokenRules(last.body) \subseteq NamedFields
        /\ recipes = prev

\* a body whose title has three characters as sent and one once trimmed, refused
\* while the store holds a posted recipe
C2_Witness ==
    /\ last.op = "create"
    /\ last.body = PaddedShortTitle
    /\ Resp.status = 422
    /\ DOMAIN posted # {}

\* C3: after DELETE /api/recipes/{id} answers 200 the id is not in the store, GET and
\* DELETE on it answer 404, and every other recipe is stored as before.
C3_DeleteRemovesOnlyThatRecipe ==
    (last.op = "delete" /\ Resp.status = 200) =>
        /\ last.id \notin DOMAIN recipes
        /\ GetNow(last.id).status = 404
        /\ DeleteNow(last.id).status = 404
        /\ DOMAIN recipes = DOMAIN prev \ {last.id}
        /\ \A k \in DOMAIN recipes : recipes[k] = prev[k]

\* a recipe deleted from a store that holds others
C3_Witness ==
    /\ last.op = "delete"
    /\ Resp.status = 200
    /\ Cardinality(DOMAIN recipes) >= 2

\* C4: GET, PUT or DELETE with a well-formed id that is not stored answers 404 with
\* error true, error_code not_found and details.requested_id the requested id, and
\* leaves the store as it was.
C4_UnknownIdNotFound ==
    (/\ last.op \in {"get", "update", "delete"}
     /\ WellFormed(last.id)
     /\ last.id \notin DOMAIN prev) =>
        /\ Resp.status = 404
        /\ Resp.error
        /\ Resp.error_code = "not_found"
        /\ Resp.has_details
        /\ Resp.requested_id = last.id
        /\ recipes = prev

\* a DELETE of the id of a recipe that was deleted before
C4_Witness ==
    /\ last.op = "delete"
    /\ Resp.status = 404
    /\ last.id = DefaultId
    /\ recipes # InitialStore

\* the submitted value of a text field, of a list field
Sent(v) == v.str

SentList(v) == [i \in 1..Len(v.items) |-> v.items[i].str]

Trimmed(v) == Strip(v.str)

TrimmedList(v) == [i \in 1..Len(v.items) |-> Strip(v.items[i].str)]

\* what a successful PUT leaves alone: the stored ids, the other recipes, and the
\* id, created_at and source of the recipe
UpdateFrame ==
    /\ DOMAIN recipes = DOMAIN prev
    /\ \A k \in DOMAIN recipes \ {last.id} : recipes[k] = prev[k]
    /\ recipes[last.id].id = prev[last.id].id
    /\ recipes[last.id].created_at = prev[last.id].created_at
    /\ recipes[last.id].source = prev[last.id].source

\* C5 as stated: a PUT answered 200 stores the submitted values in the seven editable
\* fields (an omitted tags list as the empty list), sets updated_at and changes
\* nothing else.
C5_UpdateStoresSubmitted ==
    (last.op = "update" /\ Resp.status = 200) =>
        LET r == recipes[last.id]
            b == last.body
        IN  /\ r.title = Sent(b.title)
            /\ r.description = Sent(b.description)
            /\ r.ingredients = SentList(b.ingredients)
            /\ r.instructions = SentList(b.instructions)
            /\ r.tags = SentList(b.tags)
            /\ r.region = Sent(b.region)
            /\ r.cuisine = Sent(b.cuisine)
            /\ r.updated_at = now - 1
            /\ UpdateFrame

\* C5, amended: a PUT answered 200 stores the submitted values, each trimmed of
\* surrounding whitespace (an omitted tags list as the empty list), in the seven
\* editable fields, sets updated_at to the time of the update and changes nothing
\* else: not the id, created_at or source of the recipe, not the set of stored ids,
\* not another recipe.
C5_UpdateStoresTrimmed ==
    (last.op = "update" /\ Resp.status = 200) =>
        LET r == recipes[last.id]
            b == last.body
        IN  /\ r.title = Trimmed(b.title)
            /\ r.description = Trimmed(b.description)
            /\ r.ingredients = TrimmedList(b.ingredients)
            /\ r.instructions = TrimmedList(b.instructions)
            /\ r.tags = TrimmedList(b.tags)
            /\ r.region = Trimmed(b.region)
            /\ r.cuisine = Trimmed(b.cuisine)
            /\ r.updated_at = now - 1
            /\ Resp.data = <<r>>
            /\ UpdateFrame

\* a PUT of the body with surrounding blanks, in a store of several recipes, on a
\* recipe that held other values
C5_Witness ==
    /\ last.op = "update"
    /\ Resp.status = 200
    /\ last.body = Stew
    /\ Cardinality(DOMAIN recipes) >= 2
    /\ prev[last.id].title # recipes[last.id].title

\* C6: for GET, PUT and DELETE a malformed id answers 422 whatever the store holds;
\* a well-formed id that is not stored answers 404 whatever the body; only then does
\* an invalid body of a PUT answer 422.
C6_CheckOrder ==
    (last.op \in {"get", "update", "delete"}) =>
        /\ ~WellFormed(last.id) =>
              /\ Resp.status = 422
              /\ Resp.error_code = "validation_failed"
              /\ NamedFields = {"recipe_id"}
              /\ recipes = prev
        /\ (WellFormed(last.id) /\ last.id \notin DOMAIN prev) => Resp.status = 404
        /\ (/\ WellFormed(last.id)
            /\ last.id \in DOMAIN prev
            /\ last.op = "update"
            /\ ~validate_recipe_update(last.body).is_valid) =>
              /\ Resp.status = 422
              /\ NamedFields # {"recipe_id"}
              /\ recipes = prev

\* a PUT with an invalid body for an id that is not stored, answered 404
C6_Witness ==
    /\ last.op = "update"
    /\ last.id = UnknownId
    /\ last.body = ShortTitle
    /\ Resp.status = 404

\* a GET of a malformed id that is stored (an import put it there), answered 422
C6_StoredMalformedIdRefused ==
    /\ last.op = "get"
    /\ last.id \in DOMAIN prev
    /\ ~WellFormed(last.id)
    /\ Resp.status = 422

\* Import: what the file of the request holds
FileEntries == last.file.entries

ImportAnswered(status) == last.op = "import" /\ Resp.status = status

GivenId(e, id) == e.body.id.kind = "str" /\ e.body.id.str = id

\* recipe r is Recipe(**e) for entry e of the file: built from e's values, with r's
\* own id and timestamps where e gives none
Builds(e, r) ==
    /\ e.isObject
    /\ TimeOk(e.body.created_at)
    /\ TimeOk(e.body.updated_at)
    /\ LET created == IF TimeGiven(e.body.created_at)
                      THEN FromIsoFormat(e.body.created_at.str) ELSE r.created_at
           updated == IF TimeGiven(e.body.updated_at)
                      THEN FromIsoFormat(e.body.updated_at.str) ELSE r.updated_at
           m == RecipeModel(e.body, r.id, created, updated)
       IN  m.ok /\ m.val = r

\* entry e builds a recipe
Buildable(e) ==
    /\ e.isObject
    /\ TimeOk(e.body.created_at)
    /\ TimeOk(e.body.updated_at)
    /\ RecipeModel(e.body, <<>>, 0, 0).ok

\* a later entry of the file builds a recipe with the id entry i gives
Superseded(i) ==
    \E j \in (i + 1)..Len(FileEntries) :
        /\ Buildable(FileEntries[j])
        /\ FileEntries[i].body.id.kind = "str"
        /\ GivenId(FileEntries[j], FileEntries[i].body.id.str)

\* every stored recipe is built from an entry of the file, and a recipe stored
\* before is there only under an id the file gives
OnlyFromFile ==
    /\ \A k \in DOMAIN recipes :
          \E i \in 1..Len(FileEntries) : Builds(FileEntries[i], recipes[k])
    /\ \A k \in DOMAIN prev \cap DOMAIN recipes :
          \E i \in 1..Len(FileEntries) : GivenId(FileEntries[i], k)

\* C7 as stated: after an import answered 201 the store holds exactly the recipes
\* built from the entries of the file, and a recipe stored before remains only if the
\* file has an entry with its id.
C7_ImportHoldsEveryBuiltRecipe ==
    ImportAnswered(201) =>
        /\ OnlyFromFile
        /\ \A i \in 1..Len(FileEntries) :
              Buildable(FileEntries[i]) =>
                 \E k \in DOMAIN recipes : Builds(FileEntries[i], recipes[k])

\* C7, amended: after an import answered 201 the store holds exactly the recipes
\* built from the entries of the file, the last one where several entries give the
\* same id, and a recipe stored before remains only if the file has an entry with
\* its id.
C7_ImportReplacesStore ==
    ImportAnswered(201) =>
        /\ OnlyFromFile
        /\ \A i \in 1..Len(FileEntries) :
              (Buildable(FileEntries[i]) /\ ~Superseded(i)) =>
                 \E k \in DOMAIN recipes : Builds(FileEntries[i], recipes[k])

\* an import into a store of several recipes that drops one and replaces another
\* under its id
C7_Witness ==
    /\ ImportAnswered(201)
    /\ DOMAIN prev \ DOMAIN recipes # {}
    /\ \E k \in DOMAIN prev \cap DOMAIN recipes : recipes[k] # prev[k]

\* an import of two entries with one id: only the second is stored
C7_DuplicateIdsKeepLast ==
    /\ ImportAnswered(201)
    /\ \E i \in 1..Len(FileEntries) : Buildable(FileEntries[i]) /\ Superseded(i)

\* C8: when the import answers 201 every entry of the file has been imported:
\* imported_count is the number of entries of the file (successfully_imported =
\* total_recipes_in_file) and the number of recipes in the store.
C8_ImportCountsAgree ==
    ImportAnswered(201) =>
        /\ Resp.imported_count = Len(FileEntries)
        /\ Resp.successfully_imported = Resp.total_recipes_in_file
        /\ Resp.imported_count = Cardinality(DOMAIN recipes)

\* the content C9 asks for: a non-empty list of at most 1000 valid recipe objects
ValidContent(file) ==
    /\ file.isList
    /\ Len(file.entries) >= 1
    /\ Len(file.entries) <= 1000
    /\ \A i \in 1..Len(file.entries) :
          /\ file.entries[i].isObject
          /\ validate_recipe_create(file.entries[i].body).is_valid

\* the status C9 gives a refused file, 0 for a file it does not refuse
RefusalStatus(file) ==
    IF ~EndsWith(file.filename, <<".", "j", "s", "o", "n">>) THEN 400
    ELSE IF file.size > 2 * 1024 * 1024 THEN 400
    ELSE IF file.parse # "ok" THEN 400
    ELSE IF ~ValidContent(file) THEN 422
    ELSE 0

\* C9: an import of a file whose name does not end in .json (400 file_error), of a
\* file over 2 MB (400), of a file that is not valid JSON (400) or of a file whose
\* content is not a non-empty list of at most 1000 valid recipe objects (422) is
\* refused with that status and leaves the store as it was.
C9_RejectedImportStatusAndStore ==
    (last.op = "import" /\ RefusalStatus(last.file) # 0) =>
        /\ Resp.status = RefusalStatus(last.file)
        /\ ~EndsWith(last.file.filename, <<".", "j", "s", "o", "n">>) =>
              Resp.error_code = "file_error"
        /\ recipes = prev

\* every import that is not answered 201 leaves the store as it was
RejectedImportKeepsStore ==
    (last.op = "import" /\ Resp.status # 201) =>
        /\ Resp.status \in {400, 422, 500}
        /\ recipes = prev
        /\ RefusalStatus(last.file) # 0

\* C10: every recipe in the store has source "internal".
C10_StoredRecipesInternal ==
    \A k \in DOMAIN recipes : recipes[k].source = "internal"

---------------------------------------------------------------------------
(* Search                                                                  *)

\* the recipes the request found stored whose title holds q, whatever the case
InternalMatches(q) ==
    {prev[k] : k \in {j \in DOMAIN prev :
        \E i \in 1..Len(prev[j].title) :
            /\ i + Len(q) - 1 <= Len(prev[j].title)
            /\ Lower(SubSeq(prev[j].title, i, i + Len(q) - 1)) = Lower(q)}}

Blank(q) == \A i \in 1..Len(q) : q[i] \in Whitespace

\* the external API gives the adapter nothing: it fails or reports no meals
ApiGivesNothing == last.api.kind # "ok" \/ last.api.meals = <<>>

ValidSearch ==
    /\ last.op = "list"
    /\ last.search.kind = "str"
    /\ ~Blank(last.search.str)
    /\ Len(last.search.str) <= 100

\* C11: search_meals does not raise and returns an empty list for an empty or blank
\* query (the API is not contacted), when the API reports no meals, on a timeout, on
\* an HTTP error and on any other exception; GET /api/recipes?search=q then answers
\* 200 with exactly the stored recipes that match.
C11_ApiFailureNeverFailsSearch ==
    /\ (last.op = "search_meals" /\ (Blank(last.search.str) \/ ApiGivesNothing)) =>
          /\ ~last.calls.raised
          /\ last.found = <<>>
          /\ Blank(last.search.str) => ~last.calls.contacted
    /\ (ValidSearch /\ ApiGivesNothing) =>
          /\ ~last.calls.raised
          /\ Resp.status = 200
          /\ Resp.success
          /\ Resp.recipes = InternalMatches(last.search.str)
          /\ Resp.external = <<>>
          /\ Resp.count = Cardinality(InternalMatches(last.search.str))

\* a search answered with a stored recipe although the API call ended in an exception
\* that is none of httpx
C11_Witness ==
    /\ ValidSearch
    /\ last.api.kind = "error"
    /\ last.calls.contacted
    /\ Resp.status = 200
    /\ Resp.recipes # {}

\* search_meals called with a blank query
C11_BlankQueryNotSent ==
    /\ last.op = "search_meals"
    /\ Blank(last.search.str)
    /\ last.search.str # <<>>
    /\ ~last.calls.contacted

\* the dicts of the adapter the Recipe model accepts
Acceptable(found) ==
    SelectSeq(found,
              LAMBDA d : RecipeModel(d, <<>>, FromIsoFormat(d.created_at.str),
                                     FromIsoFormat(d.updated_at.str)).ok)

\* C12: GET /api/recipes?search=q with a valid q answers with the stored recipes whose
\* title holds q, whatever the case, followed by the recipes of the adapter that the
\* Recipe model accepts, the others skipped; meta.count is the length of the list and
\* internal_count + external_count.
C12_SearchCombinesSources ==
    ValidSearch =>
        /\ Resp.status = 200
        /\ Resp.recipes = InternalMatches(last.search.str)
        /\ Len(Resp.external) = Len(Acceptable(last.found))
        /\ \A i \in 1..Len(Resp.external) :
              /\ Resp.external[i].id = Acceptable(last.found)[i].id.str
              /\ Resp.external[i].title = Strip(Acceptable(last.found)[i].title.str)
              /\ Resp.external[i].source = "external"
        /\ Resp.count = Cardinality(Resp.recipes) + Len(Resp.external)
        /\ Resp.count = Resp.internal_count + Resp.external_count

\* a search written in another case than the stored title, answered with the stored
\* recipe and an external one, a dict of the adapter having been skipped
C12_Witness ==
    /\ ValidSearch
    /\ Resp.status = 200
    /\ \E r \in Resp.recipes : ~Contains(r.title, last.search.str)
    /\ Len(Resp.external) >= 1
    /\ Len(last.found) > Len(Resp.external)

\* C13: a search parameter that is empty, blank or longer than 100 characters makes
\* GET /api/recipes answer 422 validation_failed without the store search or the
\* adapter being invoked; a request without the parameter is valid.
C13_InvalidSearchRefused ==
    /\ (/\ last.op = "list"
        /\ last.search.kind = "str"
        /\ (Blank(last.search.str) \/ Len(last.search.str) > 100)) =>
          /\ Resp.status = 422
          /\ Resp.error_code = "validation_failed"
          /\ ~last.calls.searched
          /\ ~last.calls.adapter
          /\ recipes = prev
    /\ (last.op = "list" /\ last.search.kind = "absent") =>
          /\ Resp.status = 200
          /\ Resp.recipes = {prev[k] : k \in DOMAIN prev}

\* a search of 101 characters refused
C13_Witness ==
    /\ last.op = "list"
    /\ last.search.kind = "str"
    /\ Len(last.search.str) = 101
    /\ ~Blank(last.search.str)
    /\ Resp.status = 422
    /\ Resp.validation_error_count = 1

---------------------------------------------------------------------------
(* The metrics collector: what is checked under MetricsSpec                *)

\* the metric that record appends for a call: its duration rounded to hundredths
MetricOf(call) == [call EXCEPT !.duration_ms = Round2(call.duration_ms, 1)]

MetricsOf(calls) == [i \in 1..Len(calls) |-> MetricOf(calls[i])]

\* the durations given to record under a name since the last clear
DurationsOf(name) ==
    LET calls == SelectSeq(recorded.since, LAMBDA c : c.operation_name = name)
    IN  [i \in 1..Len(calls) |-> calls[i].duration_ms]

RECURSIVE SeqSum(_)
SeqSum(ds) == IF ds = <<>> THEN 0 ELSE Head(ds) + SeqSum(Tail(ds))

SeqMin(ds) == CHOOSE d \in {ds[i] : i \in 1..Len(ds)} : \A j \in 1..Len(ds) : d <= ds[j]

SeqMax(ds) == CHOOSE d \in {ds[i] : i \in 1..Len(ds)} : \A j \in 1..Len(ds) : d >= ds[j]

RecordedNames == {recorded.since[i].operation_name : i \in 1..Len(recorded.since)}

\* avg is the quotient total / count to within half a hundredth of a millisecond,
\* and is a whole number of hundredths
RoundedQuotient(avg, total, count) ==
    /\ avg % 10 = 0
    /\ 2 * (avg * count - total) <= 10 * count
    /\ 2 * (total - avg * count) <= 10 * count

WholeHundredths(ds) == \A i \in 1..Len(ds) : ds[i] % 10 = 0

\* C14: the metrics list holds at most max_metrics entries, and they are the most
\* recent max_metrics entries recorded since the last clear, in the order of their
\* recording
C14_MetricsBounded ==
    /\ Len(collector.metrics) <= collector.max_metrics
    /\ collector.metrics = LastOf(MetricsOf(recorded.since), collector.max_metrics)

\* more calls than max_metrics have been recorded and the oldest are gone
C14_Witness ==
    /\ Len(recorded.since) > collector.max_metrics
    /\ Len(collector.metrics) = collector.max_metrics
    /\ collector.metrics[1] = MetricOf(recorded.since[Len(recorded.since)
                                                      - collector.max_metrics + 1])
    /\ collector.metrics[1] # MetricOf(recorded.since[1])

\* what C15 says of the counts, the smallest and the largest duration of every name
\* recorded since the last clear
StatsCountMinMax ==
    /\ DOMAIN collector.operation_stats = RecordedNames
    /\ \A n \in RecordedNames :
          LET stats == collector.operation_stats[n]
              ds == DurationsOf(n)
          IN  /\ stats.count = Len(ds)
              /\ stats.total_ms = SeqSum(ds)
              /\ stats.min_ms = SeqMin(ds)
              /\ stats.max_ms = SeqMax(ds)

\* C15, as the code has it: for every name recorded since the last clear, count,
\* min_ms and max_ms are the number, the smallest and the largest of the durations
\* recorded under it, trimmed entries included; avg_ms is total / count rounded to
\* hundredths; and min_ms <= avg_ms <= max_ms when the durations are whole
\* hundredths of a millisecond
C15_StatsAggregateRounded ==
    /\ StatsCountMinMax
    /\ \A n \in RecordedNames :
          LET stats == collector.operation_stats[n]
          IN  /\ RoundedQuotient(stats.avg_ms, stats.total_ms, stats.count)
              /\ WholeHundredths(DurationsOf(n)) =>
                    /\ stats.min_ms <= stats.avg_ms
                    /\ stats.avg_ms <= stats.max_ms

\* a name has statistics over more durations than the list retains, and its
\* average is not the exact quotient
C15_Witness ==
    \E n \in RecordedNames :
       LET stats == collector.operation_stats[n]
       IN  /\ stats.count > Len(collector.metrics)
           /\ stats.min_ms < stats.max_ms
           /\ WholeHundredths(DurationsOf(n))
           /\ stats.avg_ms * stats.count # stats.total_ms

\* C15 as stated: avg_ms is the total divided by count, and lies between min_ms
\* and max_ms
C15_StatsAggregateExact ==
    /\ StatsCountMinMax
    /\ \A n \in RecordedNames :
          LET stats == collector.operation_stats[n]
          IN  /\ stats.avg_ms * stats.count = stats.total_ms
              /\ stats.min_ms <= stats.avg_ms
              /\ stats.avg_ms <= stats.max_ms

\* C16: right after clear, the list and the statistics are empty, get_recent_metrics
\* gives the empty list and get_statistics gives zero counts and no operations; and
\* the first record after a clear leaves its name with count 1 and min_ms = max_ms
\* = its duration
C16_ClearEmpties ==
    /\ recorded.cleared =>
          /\ collector.metrics = <<>>
          /\ collector.operation_stats = NoStats
          /\ get_recent_metrics(collector, 100) = <<>>
          /\ get_statistics(collector).total_operations = 0
          /\ get_statistics(collector).internal_count = 0
          /\ get_statistics(collector).external_count = 0
          /\ DOMAIN get_statistics(collector).operations = {}
    /\ Len(recorded.since) >= 1 =>
          LET first == recorded.since[1]
              stats == get_statistics(collector).operations[first.operation_name]
          IN  Len(DurationsOf(first.operation_name)) = 1 =>
                 /\ stats.count = 1
                 /\ stats.min_ms = first.duration_ms
                 /\ stats.max_ms = first.duration_ms

\* a name that had statistics before the clear has been recorded once after it
C16_Witness ==
    /\ Len(recorded.since) = 1
    /\ recorded.since[1].operation_name \in recorded.dropped
    /\ collector.operation_stats[recorded.since[1].operation_name].count = 1

\* the clear itself has happened on a collector that had statistics
C16_ClearedWitness == recorded.cleared /\ recorded.dropped # {} /\ recorded.total >= 2

\* what C17 says of the counts
StatisticsCounts ==
    LET s == get_statistics(collector)
    IN  /\ s.internal_count = Len(OfType(collector.metrics, "internal"))
        /\ s.external_count = Len(OfType(collector.metrics, "external"))
        /\ s.total_operations = Len(collector.metrics)
        /\ s.internal_count = 0 => s.internal_avg_ms = 0
        /\ s.external_count = 0 => s.external_avg_ms = 0
        /\ (\A i \in 1..Len(recorded.since) :
               recorded.since[i].operation_type \in {"internal", "external"})
           => s.internal_count + s.external_count = s.total_operations

\* C17, as the code has it: the counts are those of the retained metrics by type,
\* and each average is the mean duration of the retained metrics of the type
\* rounded to hundredths
C17_StatisticsRounded ==
    LET s == get_statistics(collector)
    IN  /\ StatisticsCounts
        /\ s.internal_count > 0 =>
              RoundedQuotient(s.internal_avg_ms,
                              SumDurations(OfType(collector.metrics, "internal")),
                              s.internal_count)
        /\ s.external_count > 0 =>
              RoundedQuotient(s.external_avg_ms,
                              SumDurations(OfType(collector.metrics, "external")),
                              s.external_count)

\* metrics of three types are retained and the internal average is not the mean
C17_Witness ==
    LET s == get_statistics(collector)
    IN  /\ s.internal_count = 3
        /\ s.internal_avg_ms * 3 # SumDurations(OfType(collector.metrics, "internal"))

\* metrics of another type are retained beside internal and external ones
C17_OtherTypeWitness ==
    LET s == get_statistics(collector)
    IN  /\ s.internal_count = 1
        /\ s.external_count = 1
        /\ s.total_operations = 3

\* C17 as stated: each average is the mean duration of the retained metrics of
\* its type
C17_StatisticsExact ==
    LET s == get_statistics(collector)
    IN  /\ StatisticsCounts
        /\ s.internal_avg_ms * s.internal_count
              = SumDurations(OfType(collector.metrics, "internal"))
        /\ s.external_avg_ms * s.external_count
              = SumDurations(OfType(collector.metrics, "external"))


\* the limits get_recent_metrics is asked for
Limits == 0..(MaxRecords + 1)

Smaller(a, b) == IF a < b THEN a ELSE b

\* C29: get_recent_metrics(limit) returns the last min(limit, n) of the n
\* retained metrics, in the order they were recorded, for every limit >= 0, and
\* never more than limit entries.
C29_RecentWithinLimit ==
    \A limit \in Limits :
        /\ get_recent_metrics(collector, limit) =
              SubSeq(collector.metrics,
                     Len(collector.metrics) - Smaller(limit, Len(collector.metrics)) + 1,
                     Len(collector.metrics))
        /\ Len(get_recent_metrics(collector, limit)) <= limit

\* what holds instead: the statement for every limit >= 1, and the whole list for
\* the limit 0
C29_RecentForPositiveLimit ==
    /\ \A limit \in Limits \ {0} :
          /\ get_recent_metrics(collector, limit) =
                SubSeq(collector.metrics,
                       Len(collector.metrics) - Smaller(limit, Len(collector.metrics)) + 1,
                       Len(collector.metrics))
          /\ Len(get_recent_metrics(collector, limit)) <= limit
    /\ get_recent_metrics(collector, 0) = collector.metrics

\* two metrics retained: the limit 0 gives both, the limit 1 the later one
C29_ZeroGivesAll ==
    /\ Len(collector.metrics) = 2
    /\ Len(get_recent_metrics(collector, 0)) = 2
    /\ get_recent_metrics(collector, 1) = <<collector.metrics[2]>>
\* the instruction texts _parse_instructions is called with
InstructionTexts ==
    {Str(<<>>), Str(<<" ", " ", " ">>), Null, Num, Str(<<"H", "i">>), Str(<<"H", "e",
        "l", "l", "o">>),
     Str(<<"B", "o", "i", "l", " ", "t", "h", "e", " ", "c", "h", "i", "c", "k", "e",
         "n", ".", "\n", "S", "e", "r", "v", "e", " ", "i", "t", " ", "h", "o", "t",
         ".">>), Str(<<"S", "T", "E", "P", " ", "1", ":", " ", "M", "i", "x", "\n",
         "S", "T", "E", "P", " ", "2", ":", " ", "B", "a", "k", "e">>),
     Str(<<"S", "T", "E", "P", " ", "1", ":">>), Str(<<"M", "i", "x", ".", " ", "B",
         "a", "k", "e", ".", " ", "S", "e", "r", "v", "e", " ", "t", "h", "e", " ",
         "d", "i", "s", "h", " ", "w", "a", "r", "m", ".">>),
     Str(<<"1", ".", " ", "P", "r", "e", "h", "e", "a", "t", " ", "t", "h", "e", " ",
         "o", "v", "e", "n", "\n", "2", ")", " ", "B", "a", "k", "e", " ", "f", "o",
         "r", " ", "a", "n", " ", "h", "o", "u", "r", "\n", "\n", "S", "e", "r", "v",
         "e">>),
     Str(<<"S", "t", "i", "r", " ", "w", "e", "l", "l">>)}

---------------------------------------------------------------------------
(* The validators and the transformation of a meal, called on their own    *)
(*                                                                         *)
(* The validators of app/validation.py and _transform_meal_to_recipe read  *)
(* nothing but their argument (and the clock).  Each action below is one   *)
(* call: probe holds the argument and what the call returned, next to what *)
(* the caller builds from it, until Return forgets it.  Nothing else       *)
(* changes.                                                                *)

NoCall == [call |-> "none"]

\* what a route answers for a result (routes/api.py: if not
\* validation_result.is_valid: return create_validation_error_response(...))
Refusal(validation_result) ==
    IF validation_result.is_valid THEN NoResponse
    ELSE create_validation_error_response(validation_result)

CallInit ==
    /\ probe = NoCall
    /\ now = 2
    /\ recipes = EmptyStore
    /\ nextUuid = 1
    /\ last = NoRequest
    /\ prev = EmptyStore
    /\ posted = NoPosts
    /\ writes = 0
    /\ collector = NotFollowed
    /\ recorded = NotFollowed

Called(call) ==
    /\ probe = NoCall
    /\ probe' = call
    /\ UNCHANGED <<recipes, nextUuid, now, last, prev, posted, writes, collector,
                   recorded>>

\* RecipeValidator.validate_recipe_create(data), next to the hand-written checks
\* alone and to RecipeCreate(**data) alone
ValidateRecipeCreate(data) ==
    /\ probe = NoCall
    /\ \E result \in {validate_recipe_create(data)},
          manual \in {BusinessChecks(data, NewResult)},
          model \in {RecipeCreate(data)} :
          Called([call |-> "validate_recipe_create", input |-> data,
                  result |-> result, response |-> Refusal(result),
                  manual |-> manual, constructed |-> model.ok])

\* RecipeValidator.validate_recipe_update(data), likewise
ValidateRecipeUpdate(data) ==
    /\ probe = NoCall
    /\ \E result \in {validate_recipe_update(data)},
          manual \in {BusinessChecks(data, NewResult)},
          model \in {RecipeUpdate(data)} :
          Called([call |-> "validate_recipe_update", input |-> data,
                  result |-> result, response |-> Refusal(result),
                  manual |-> manual, constructed |-> model.ok])

ValidateRecipeId(recipe_id) ==
    /\ probe = NoCall
    /\ \E result \in {validate_recipe_id(recipe_id)} :
          Called([call |-> "validate_recipe_id", input |-> recipe_id,
                  result |-> result, response |-> Refusal(result)])

ValidateSearchQuery(query) ==
    /\ probe = NoCall
    /\ \E result \in {validate_search_query(query)} :
          Called([call |-> "validate_search_query", input |-> query,
                  result |-> result, response |-> Refusal(result)])

\* validate_import_data on what json.loads made of a file
ValidateImportData(file) ==
    /\ probe = NoCall
    /\ file.parse = "ok"
    /\ \E result \in {validate_import_data(file.isList, file.entries)} :
          Called([call |-> "validate_import_data", input |-> file,
                  result |-> result, response |-> Refusal(result)])

\* TheMealDBAdapter._transform_meal_to_recipe(meal), next to Recipe(**recipe) as
\* the list of recipes builds it from the returned dictionary
TransformMeal(meal) ==
    /\ probe = NoCall
    /\ \E out \in {_transform_meal_to_recipe(meal, now)} :
         \E model \in {IF out.raised THEN Fail(<<>>)
                       ELSE RecipeModel(out.recipe, <<>>,
                                        FromIsoFormat(out.recipe.created_at.str),
                                        FromIsoFormat(out.recipe.updated_at.str))} :
           Called([call |-> "_transform_meal_to_recipe", input |-> meal,
                   raised |-> out.raised, recipe |-> out.recipe,
                   accepted |-> ~out.raised /\ model.ok, refused |-> model.errs])

\* TheMealDBAdapter._extract_ingredients(meal)
ExtractIngredients(meal) ==
    /\ probe = NoCall
    /\ meal.isObject
    /\ \E out \in {_extract_ingredients(meal)} :
          Called([call |-> "_extract_ingredients", input |-> meal,
                  raised |-> out.raised, result |-> out.val])

\* TheMealDBAdapter._parse_instructions(instructions_text)
ParseInstructions(instructions_text) ==
    /\ probe = NoCall
    /\ \E out \in {_parse_instructions(instructions_text)} :
          Called([call |-> "_parse_instructions", input |-> instructions_text,
                  raised |-> out.raised, result |-> out.val])

Return ==
    /\ probe # NoCall
    /\ probe' = NoCall
    /\ UNCHANGED <<recipes, nextUuid, now, last, prev, posted, writes, collector,
                   recorded>>

CallNext ==
    \/ \E data \in Payloads : ValidateRecipeCreate(data)
    \/ \E data \in Payloads : ValidateRecipeUpdate(data)
    \/ \E recipe_id \in PayloadIds : ValidateRecipeId(recipe_id)
    \/ \E query \in PayloadSearches : ValidateSearchQuery(query)
    \/ \E file \in Files(1) : ValidateImportData(file)
    \/ \E meal \in Meals : TransformMeal(meal)
    \/ \E meal \in Meals : ExtractIngredients(meal)
    \/ \E instructions_text \in InstructionTexts :
          ParseInstructions(instructions_text)
    \/ Return

CallSpec == CallInit /\ [][CallNext]_vars

---------------------------------------------------------------------------
(* Claims on the validators and on the transformation                      *)

ValidatorCalls ==
    {"validate_recipe_create", "validate_recipe_update", "validate_recipe_id",
     "validate_search_query", "validate_import_data"}

\* C18: every result a validator returns is valid exactly when it holds no error
\* record; one more add_error on it leaves it invalid with one more record; and
\* the 422 response built from an invalid result carries validation_error_count
\* and details.error_count both equal to the number of its error records.
C18_ResultValidIffNoErrors ==
    probe.call \in ValidatorCalls =>
        /\ probe.result.is_valid = (probe.result.errors = <<>>)
        /\ \E more \in {AddError(probe.result, "data", -1, "type_error")} :
              /\ ~more.is_valid
              /\ Len(more.errors) = Len(probe.result.errors) + 1
        /\ ~probe.result.is_valid =>
              /\ probe.response.status = 422
              /\ probe.response.validation_errors = probe.result.errors
              /\ probe.response.validation_error_count = Len(probe.result.errors)
              /\ probe.response.has_details
              /\ probe.response.error_count = Len(probe.result.errors)

\* a payload that breaks several rules: the result holds one record for each and
\* the 422 counts them
C18_Witness ==
    /\ probe.call = "validate_recipe_create"
    /\ ~probe.result.is_valid
    /\ Len(probe.result.errors) >= 3
    /\ probe.response.status = 422
    /\ probe.response.validation_error_count = Len(probe.result.errors)
    /\ probe.response.error_count = Len(probe.result.errors)

\* a result without a record, which no 422 is built from
C18_ValidWitness ==
    /\ probe.call \in ValidatorCalls
    /\ probe.result.is_valid
    /\ probe.result.errors = <<>>
    /\ probe.response = NoResponse

SchemaCalls == {"validate_recipe_create", "validate_recipe_update"}

\* C19: for every create or update payload, the hand-written field checks report
\* an error if and only if constructing RecipeCreate / RecipeUpdate from the
\* payload fails.
C19_ManualChecksMirrorSchema ==
    probe.call \in SchemaCalls =>
        ((probe.manual.errors # <<>>) <=> ~probe.constructed)

\* the two directions of C19 apart
C19_ManualErrorMeansSchemaFails ==
    probe.call \in SchemaCalls =>
        (probe.manual.errors # <<>> => ~probe.constructed)

C19_SchemaFailureMeansManualError ==
    probe.call \in SchemaCalls =>
        (~probe.constructed => probe.manual.errors # <<>>)

\* the padded short title: the schema builds a recipe titled "a", the hand-written
\* check reports too_short
C19_PaddedTitleDiverges ==
    /\ probe.call = "validate_recipe_create"
    /\ probe.input = PaddedShortTitle
    /\ probe.constructed
    /\ probe.manual.errors = <<Err("title", -1, "too_short")>>

\* tags given as null: the hand-written check skips them, the schema refuses
C19_NullTagsDiverge ==
    /\ probe.call = "validate_recipe_create"
    /\ probe.input = NullTags
    /\ ~probe.constructed
    /\ probe.manual.errors = <<>>

\* C20: for every meal, the dictionary _transform_meal_to_recipe returns is
\* accepted by the Recipe model, has source "external" and has the meal's idMeal
\* as its id.
C20_TransformedMealAccepted ==
    (probe.call = "_transform_meal_to_recipe" /\ ~probe.raised) =>
        /\ probe.accepted
        /\ probe.recipe.source = Str(<<"e","x","t","e","r","n","a","l">>)
        /\ probe.recipe.id = probe.input.idMeal

\* the parts of C20 apart: the source of a returned dictionary is always
\* "external", and its id is idMeal whenever the meal has that key
C20_SourceExternal ==
    (probe.call = "_transform_meal_to_recipe" /\ ~probe.raised) =>
        /\ probe.recipe.source = Str(<<"e","x","t","e","r","n","a","l">>)
        /\ probe.input.idMeal # Absent => probe.recipe.id = probe.input.idMeal

\* a meal named "Ab": the dictionary has the title "Ab", which Recipe refuses
C20_ShortNameRefused ==
    /\ probe.call = "_transform_meal_to_recipe"
    /\ probe.input = ShortNameMeal
    /\ ~probe.raised
    /\ ~probe.accepted
    /\ probe.refused = <<Err("title", -1, "string_too_short")>>
    /\ probe.recipe.id = ShortNameMeal.idMeal

\* the meal of the tests is transformed into a dictionary Recipe accepts
C20_SampleAccepted ==
    /\ probe.call = "_transform_meal_to_recipe"
    /\ probe.input = ChickenSoup
    /\ probe.accepted

---------------------------------------------------------------------------
(* Claims on the store as a mapping                                        *)

\* C21: every key of the store maps to a recipe whose id is that key, so no two
\* stored recipes share an id.
C21_KeyedByIdentifier ==
    /\ \A k \in DOMAIN recipes : recipes[k].id = k
    /\ \A j, k \in DOMAIN recipes : recipes[j].id = recipes[k].id => j = k

\* a store that holds a created recipe (under a drawn uuid) next to an imported
\* one (under the id its file names)
C21_Witness ==
    /\ \E n \in 1..(nextUuid - 1) : Uuid(n) \in DOMAIN recipes
    /\ \E k \in DOMAIN recipes : \A n \in 1..nextUuid : k # Uuid(n)
    /\ Cardinality(DOMAIN recipes) >= 2

IsTrimmed(text) == Strip(text) = text

\* the bounds of the Recipe model on the values of a stored recipe
WithinBounds(recipe) ==
    /\ Len(recipe.title) \in 3..200 /\ IsTrimmed(recipe.title)
    /\ Len(recipe.description) \in 10..2000 /\ IsTrimmed(recipe.description)
    /\ Len(recipe.ingredients) \in 1..50
    /\ \A i \in 1..Len(recipe.ingredients) :
          Len(recipe.ingredients[i]) >= 2 /\ IsTrimmed(recipe.ingredients[i])
    /\ Len(recipe.instructions) \in 1..50
    /\ \A i \in 1..Len(recipe.instructions) :
          Len(recipe.instructions[i]) >= 5 /\ IsTrimmed(recipe.instructions[i])
    /\ Len(recipe.tags) <= 20
    /\ \A i \in 1..Len(recipe.tags) :
          Len(recipe.tags[i]) \in 1..30 /\ IsTrimmed(recipe.tags[i])
    /\ Len(recipe.region) \in 2..100 /\ IsTrimmed(recipe.region)
    /\ Len(recipe.cuisine) \in 2..100 /\ IsTrimmed(recipe.cuisine)

\* C26: after any sequence of create, update, delete and import requests from
\* the initial store, every stored recipe has trimmed values within the bounds of
\* the schema.
C26_StoredWithinBounds ==
    \A k \in DOMAIN recipes : WithinBounds(recipes[k])

\* a store that holds the trimmed values of a padded body, put there by a PUT on
\* the default recipe, next to a recipe a POST or an import stored
C26_Witness ==
    /\ DefaultId \in DOMAIN recipes
    /\ recipes[DefaultId].title = <<"S","t","e","w">>
    /\ recipes[DefaultId].region = <<"E","U">>
    /\ Cardinality(DOMAIN recipes) >= 2

\* C27: every stored recipe is reachable by its id: validate_recipe_id accepts
\* the id, and GET /api/recipes/{id} answers 200 with that recipe.
C27_StoredIdsReachable ==
    \A k \in DOMAIN recipes :
        /\ validate_recipe_id(k).is_valid
        /\ get_recipe(recipes, k, nextUuid, now).resp.status = 200
        /\ get_recipe(recipes, k, nextUuid, now).resp.data = <<recipes[k]>>

\* what holds instead: a stored recipe is reachable exactly when
\* validate_recipe_id accepts its id, and the ids of created recipes are accepted
C27_ReachableIffValidId ==
    \A k \in DOMAIN recipes :
        /\ get_recipe(recipes, k, nextUuid, now).resp.status =
              (IF validate_recipe_id(k).is_valid THEN 200 ELSE 422)
        /\ (\E n \in 1..nextUuid : k = Uuid(n)) => validate_recipe_id(k).is_valid

\* an import has stored a recipe under an id with a blank and an exclamation mark;
\* GET, PUT and DELETE on that id answer 422
C27_StoredUnreachable ==
    /\ MalformedId \in DOMAIN recipes
    /\ get_recipe(recipes, MalformedId, nextUuid, now).resp.status = 422
    /\ update_recipe(recipes, MalformedId, Soup, nextUuid, now).resp.status = 422
    /\ delete_recipe(recipes, MalformedId, nextUuid, now).resp.status = 422

---------------------------------------------------------------------------
(* The store's operations with their metrics (app/services/storage.py)     *)
(*                                                                         *)
(* Each operation of RecipeStorage runs its body inside a PerformanceTimer *)
(* block and, after the block, calls metrics_collector.record with the     *)
(* type "internal" and its own name.  An exception or a return inside the  *)
(* block leaves the function before that call.  The operators below give   *)
(* the store, the collector and the clock after a call; duration_ms is     *)
(* what the timer measured.                                                *)

timed_get_all_recipes(store, c, duration_ms, t) ==
    [raised |-> FALSE, store |-> store, uuid |-> 0, now |-> t + 1,
     collector |-> record(c, "internal", "get_all_recipes", duration_ms, t)]

timed_get_recipe(store, recipe_id, c, duration_ms, t) ==
    [raised |-> FALSE, store |-> store, uuid |-> 0, now |-> t + 1,
     collector |-> record(c, "internal", "get_recipe", duration_ms, t)]

\* search_recipes: for a falsy query the block returns self.get_all_recipes(),
\* which records under its own name, and the record call after the block is not
\* reached
timed_search_recipes(store, query, c, duration_ms, t) ==
    IF query = <<>> THEN timed_get_all_recipes(store, c, duration_ms, t)
    ELSE [raised |-> FALSE, store |-> store, uuid |-> 0, now |-> t + 1,
          collector |-> record(c, "internal", "search_recipes", duration_ms, t)]

\* create_recipe: Recipe(**recipe_data.model_dump()) raises inside the block when
\* the Recipe model refuses the dumped values
timed_create_recipe(store, val, uuid, c, duration_ms, t) ==
    CHOOSE out \in
      {IF r.raised
       THEN [raised |-> TRUE, store |-> r.store, uuid |-> r.uuid, now |-> r.now,
             collector |-> c]
       ELSE [raised |-> FALSE, store |-> r.store, uuid |-> r.uuid, now |-> r.now + 1,
             collector |-> record(c, "internal", "create_recipe", duration_ms,
                 r.now)] :
         r \in {storage_create_recipe(store, val, uuid, t)}} : TRUE

timed_update_recipe(store, recipe_id, val, c, duration_ms, t) ==
    CHOOSE out \in
      {[raised |-> FALSE, store |-> r.store, uuid |-> 0, now |-> r.now + 1,
        collector |-> record(c, "internal", "update_recipe", duration_ms, r.now)] :
         r \in {storage_update_recipe(store, recipe_id, val, t)}} : TRUE

timed_delete_recipe(store, recipe_id, c, duration_ms, t) ==
    [raised |-> FALSE, store |-> storage_delete_recipe(store, recipe_id).store,
     uuid |-> 0, now |-> t + 1,
     collector |-> record(c, "internal", "delete_recipe", duration_ms, t)]

\* import_recipes: the loop catches what an entry raises
timed_import_recipes(store, entries, uuid, c, duration_ms, t) ==
    CHOOSE out \in
      {[raised |-> FALSE, store |-> r.store, uuid |-> r.uuid, now |-> r.now + 1,
        collector |-> record(c, "internal", "import_recipes", duration_ms, r.now)] :
         r \in {storage_import_recipes(store, entries, uuid, t)}} : TRUE

---------------------------------------------------------------------------
(* Calls of the store's operations                                         *)
(*                                                                         *)
(* The global store and the global collector, and a caller that calls the  *)
(* operations of the store directly, one call at a time.  probe holds the  *)
(* name of the last call, the metrics before it and the number of calls.   *)

MaxCalls == 2

\* RecipeCreate / RecipeUpdate objects the operations are given
StorageValues == {RecipeCreate(Soup).val, RecipeCreate(PaddedShortTitle).val}

StorageIds == {DefaultId, UnknownId, Uuid(1)}

StorageQueries == {<<>>, <<"t", "e">>, <<"z", "z">>}

StorageEntries ==
    {<<Entry(Soup)>>, <<Entry(WithId(Stew, DefaultId)), Entry(ExternalEntry)>>,
     <<Entry(BogusSourceEntry)>>}

StorageDurations == {4, 40}

StorageInit ==
    /\ recipes = InitialStore
    /\ nextUuid = 1
    /\ now = 2
    /\ collector = NewCollector(MAX_METRICS)
    /\ probe = [call |-> "none", raised |-> FALSE, before |-> <<>>, calls |-> 0]
    /\ last = NoRequest
    /\ prev = InitialStore
    /\ posted = NoPosts
    /\ writes = 0
    /\ recorded = NotFollowed

\* one call: out is what the operation leaves
StorageCall(call, out) ==
    /\ probe.calls < MaxCalls
    /\ recipes' = out.store
    /\ nextUuid' = IF out.uuid = 0 THEN nextUuid ELSE out.uuid
    /\ now' = out.now
    /\ collector' = out.collector
    /\ probe' = [call |-> call, raised |-> out.raised, before |-> collector.metrics,
                 calls |-> probe.calls + 1]
    /\ UNCHANGED <<last, prev, posted, writes, recorded>>

StorageGetAllRecipes(duration_ms) ==
    /\ probe.calls < MaxCalls
    /\ \E out \in {timed_get_all_recipes(recipes, collector, duration_ms, now)} :
          StorageCall("get_all_recipes", out)

StorageGetRecipe(recipe_id, duration_ms) ==
    /\ probe.calls < MaxCalls
    /\ \E out \in {timed_get_recipe(recipes, recipe_id, collector, duration_ms,
        now)} :
          StorageCall("get_recipe", out)

StorageSearchRecipes(query, duration_ms) ==
    /\ probe.calls < MaxCalls
    /\ \E out \in {timed_search_recipes(recipes, query, collector, duration_ms,
        now)} :
          StorageCall("search_recipes", out)

StorageCreateRecipe(val, duration_ms) ==
    /\ probe.calls < MaxCalls
    /\ \E out \in {timed_create_recipe(recipes, val, nextUuid, collector,
                                       duration_ms, now)} :
          StorageCall("create_recipe", out)

StorageUpdateRecipe(recipe_id, val, duration_ms) ==
    /\ probe.calls < MaxCalls
    /\ \E out \in {timed_update_recipe(recipes, recipe_id, val, collector,
                                       duration_ms, now)} :
          StorageCall("update_recipe", out)

StorageDeleteRecipe(recipe_id, duration_ms) ==
    /\ probe.calls < MaxCalls
    /\ \E out \in {timed_delete_recipe(recipes, recipe_id, collector, duration_ms,
                                       now)} :
          StorageCall("delete_recipe", out)

StorageImportRecipes(entries, duration_ms) ==
    /\ probe.calls < MaxCalls
    /\ \E out \in {timed_import_recipes(recipes, entries, nextUuid, collector,
                                        duration_ms, now)} :
          StorageCall("import_recipes", out)

StorageNext ==
    \E duration_ms \in StorageDurations :
       \/ StorageGetAllRecipes(duration_ms)
       \/ \E recipe_id \in StorageIds : StorageGetRecipe(recipe_id, duration_ms)
       \/ \E query \in StorageQueries : StorageSearchRecipes(query, duration_ms)
       \/ \E val \in StorageValues : StorageCreateRecipe(val, duration_ms)
       \/ \E recipe_id \in StorageIds, val \in StorageValues :
             StorageUpdateRecipe(recipe_id, val, duration_ms)
       \/ \E recipe_id \in StorageIds : StorageDeleteRecipe(recipe_id, duration_ms)
       \/ \E entries \in StorageEntries : StorageImportRecipes(entries, duration_ms)

StorageSpec == StorageInit /\ [][StorageNext]_vars

\* the metrics a call has appended
Appended ==
    SubSeq(collector.metrics, Len(probe.before) + 1, Len(collector.metrics))

\* C22: every call of an operation of the store appends exactly one metric, of
\* type "internal" and named after the operation that was called.
C22_EveryCallRecordsItsName ==
    probe.call # "none" =>
        /\ SubSeq(collector.metrics, 1, Len(probe.before)) = probe.before
        /\ Len(Appended) = 1
        /\ Appended[1].operation_type = "internal"
        /\ Appended[1].operation_name = probe.call

\* what holds instead: a call that returns appends exactly one metric of type
\* "internal"; it is named after the call except for a search with an empty
\* query; a call that raises appends none
C22_ReturnedCallRecordsOnce ==
    probe.call # "none" =>
        /\ SubSeq(collector.metrics, 1, Len(probe.before)) = probe.before
        /\ Len(Appended) = (IF probe.raised THEN 0 ELSE 1)
        /\ \A i \in 1..Len(Appended) :
              /\ Appended[i].operation_type = "internal"
              /\ Appended[i].operation_name # probe.call =>
                    /\ probe.call = "search_recipes"
                    /\ Appended[i].operation_name = "get_all_recipes"

\* a search with an empty query is recorded as get_all_recipes
C22_EmptySearchMisnamed ==
    /\ probe.call = "search_recipes"
    /\ Len(Appended) = 1
    /\ Appended[1].operation_name = "get_all_recipes"

\* a create_recipe that raises is not recorded
C22_RaisedCreateUnrecorded ==
    /\ probe.call = "create_recipe"
    /\ probe.raised
    /\ collector.metrics = probe.before

\* a search with a query is recorded under its name
C22_SearchRecorded ==
    /\ probe.call = "search_recipes"
    /\ Len(Appended) = 1
    /\ Appended[1].operation_name = "search_recipes"
    /\ Len(probe.before) = 1

---------------------------------------------------------------------------
(* Claims on the parts of the transformation                               *)

\* a numbered field whose ingredient is a text that is not blank
SlotGiven(slot) ==
    slot.ingredient.kind = "str" /\ Strip(slot.ingredient.str) # <<>>

\* "<measure> <ingredient>", or the ingredient alone for a measure that is absent,
\* null or blank
SlotText(slot) ==
    IF slot.measure.kind = "str" /\ Strip(slot.measure.str) # <<>>
    THEN Strip(slot.measure.str) \o <<" ">> \o Strip(slot.ingredient.str)
    ELSE Strip(slot.ingredient.str)

\* the texts of the given fields among the fields i..20, in order
RECURSIVE Listed(_, _)
Listed(slots, i) ==
    IF i > Len(slots) \/ i > 20 THEN <<>>
    ELSE (IF SlotGiven(slots[i]) THEN <<SlotText(slots[i])>> ELSE <<>>)
         \o Listed(slots, i + 1)

\* C23: _extract_ingredients returns, for the fields 1 to 20 in order, the text
\* "<measure> <ingredient>" (both trimmed) of each field whose ingredient is
\* non-empty after trimming, or the ingredient alone when the measure is empty or
\* null; it returns between 1 and 20 entries, and the single placeholder
\* "No ingredients listed" when no ingredient is present.
C23_IngredientsOfSlots ==
    (probe.call = "_extract_ingredients" /\ ~probe.raised) =>
        /\ probe.result =
              (IF Listed(probe.input.slots, 1) = <<>>
               THEN <<<<"N", "o", " ", "i", "n", "g", "r", "e", "d", "i", "e", "n",
                   "t", "s", " ", "l", "i", "s", "t", "e", "d">>>>
               ELSE Listed(probe.input.slots, 1))
        /\ Len(probe.result) \in 1..20

\* padded texts, a blank ingredient, a missing ingredient, a blank and a missing
\* measure: three entries, trimmed, in the order of their fields
C23_Witness ==
    /\ probe.call = "_extract_ingredients"
    /\ probe.input.slots = PaddedSlots
    /\ ~probe.raised
    /\ probe.result = <<<<"1", " ", "c", "u", "p", " ", "r", "i", "c", "e">>, <<"s",
        "a", "l", "t">>, <<"o", "i", "l">>>>

\* 21 numbered fields: the 21st is not read
C23_ManySlotsWitness ==
    /\ probe.call = "_extract_ingredients"
    /\ probe.input.slots = ManySlots
    /\ Len(probe.result) = 20

\* no ingredient present: the placeholder
C23_PlaceholderWitness ==
    /\ probe.call = "_extract_ingredients"
    /\ probe.input.slots # <<>>
    /\ probe.result = <<<<"N", "o", " ", "i", "n", "g", "r", "e", "d", "i", "e", "n",
        "t", "s", " ", "l", "i", "s", "t", "e", "d">>>>

\* a text that is empty, blank, null or absent
NoText(v) == Falsy(v) \/ (v.kind = "str" /\ Strip(v.str) = <<>>)

\* C24: _parse_instructions never returns an empty list, every step it returns
\* has at least 5 characters, and for an empty or whitespace-only text it returns
\* the single step "No instructions provided".
C24_StepsNeverShort ==
    (probe.call = "_parse_instructions" /\ ~probe.raised) =>
        /\ probe.result # <<>>
        /\ \A i \in 1..Len(probe.result) : Len(probe.result[i]) >= 5
        /\ NoText(probe.input) =>
              probe.result = <<<<"N", "o", " ", "i", "n", "s", "t", "r", "u", "c",
                  "t", "i", "o", "n", "s", " ", "p", "r", "o", "v", "i", "d", "e",
                  "d">>>>

\* the parts of C24 that hold: the list is never empty, no step is empty, and an
\* empty or blank text gives the placeholder
C24_NeverEmpty ==
    (probe.call = "_parse_instructions" /\ ~probe.raised) =>
        /\ probe.result # <<>>
        /\ \A i \in 1..Len(probe.result) : probe.result[i] # <<>>
        /\ NoText(probe.input) =>
              probe.result = <<<<"N", "o", " ", "i", "n", "s", "t", "r", "u", "c",
                  "t", "i", "o", "n", "s", " ", "p", "r", "o", "v", "i", "d", "e",
                  "d">>>>

\* lines that lose their "STEP n:" prefix leave steps of 3 and 4 characters
C24_ShortSteps ==
    /\ probe.call = "_parse_instructions"
    /\ probe.input = Str(<<"S", "T", "E", "P", " ", "1", ":", " ", "M", "i", "x",
        "\n", "S", "T", "E", "P", " ", "2", ":", " ", "B", "a", "k", "e">>)
    /\ probe.result = <<<<"M", "i", "x">>, <<"B", "a", "k", "e">>>>

\* a text shorter than 5 characters is returned as the only step
C24_ShortText ==
    /\ probe.call = "_parse_instructions"
    /\ probe.input = Str(<<"H", "i">>)
    /\ probe.result = <<<<"H", "i">>>>

\* the text of the tests gives steps of at least 5 characters
C24_LongSteps ==
    /\ probe.call = "_parse_instructions"
    /\ probe.input = Str(<<"B", "o", "i", "l", " ", "t", "h", "e", " ", "c", "h", "i",
        "c", "k", "e", "n", ".", "\n", "S", "e", "r", "v", "e", " ", "i", "t", " ",
        "h", "o", "t", ".">>)
    /\ probe.result = <<<<"B", "o", "i", "l", " ", "t", "h", "e", " ", "c", "h", "i",
        "c", "k", "e", "n", ".">>, <<"S", "e", "r", "v", "e", " ", "i", "t", " ", "h",
        "o", "t", ".">>>>

\* the comma-separated entries of a tags text, trimmed, the empty ones dropped
TagEntries(tags_text) ==
    IF tags_text.kind # "str" THEN <<>>
    ELSE LET pieces == Split(tags_text.str, ",")
             trimmed == [i \in 1..Len(pieces) |-> Str(Strip(pieces[i]))]
         IN  SelectSeq(trimmed, LAMBDA tag : tag.str # <<>>)

\* the category of a meal, when it has a non-empty one
HasCategory(meal) == meal.strCategory.kind = "str" /\ meal.strCategory.str # <<>>

Among(x, xs) == \E i \in 1..Len(xs) : xs[i] = x

\* the entries followed by the category, when the meal has one that is no entry
WithCategory(meal) ==
    IF HasCategory(meal) /\ ~Among(meal.strCategory, TagEntries(meal.strTags))
    THEN Append(TagEntries(meal.strTags), meal.strCategory)
    ELSE TagEntries(meal.strTags)

Transformed == probe.call = "_transform_meal_to_recipe" /\ ~probe.raised

\* C25 as stated: the tags of the transformed recipe are the entries of strTags
\* (followed by the category when it is no entry), a non-empty category is always
\* among the tags, and there are never more than 20 tags.
C25_CategoryAlwaysTagged ==
    Transformed =>
        /\ probe.recipe.tags.items = WithCategory(probe.input)
        /\ HasCategory(probe.input) =>
              Among(probe.input.strCategory, probe.recipe.tags.items)
        /\ Len(probe.recipe.tags.items) <= 20

\* C25: the tags of the transformed recipe are the first 20 of the entries of
\* strTags followed by the category when it is non-empty and no entry; so there
\* are never more than 20 tags, and a non-empty category is among them whenever
\* strTags has fewer than 20 entries.
C25_TagsCutToTwenty ==
    Transformed =>
        /\ probe.recipe.tags.items =
              SubSeq(WithCategory(probe.input), 1,
                     IF Len(WithCategory(probe.input)) < 20
                     THEN Len(WithCategory(probe.input)) ELSE 20)
        /\ Len(probe.recipe.tags.items) <= 20
        /\ (HasCategory(probe.input) /\ Len(TagEntries(probe.input.strTags)) < 20) =>
              Among(probe.input.strCategory, probe.recipe.tags.items)

\* 19 entries and a category: 20 tags, the category the last of them
C25_Witness ==
    /\ Transformed
    /\ probe.input.strTags = ManyTags(MAX_TAGS - 1)
    /\ HasCategory(probe.input)
    /\ Len(probe.recipe.tags.items) = 20
    /\ probe.recipe.tags.items[20] = probe.input.strCategory

\* 20 entries and a category: the category is cut off
C25_CategoryCutOff ==
    /\ Transformed
    /\ probe.input.strTags = ManyTags(MAX_TAGS)
    /\ HasCategory(probe.input)
    /\ ~Among(probe.input.strCategory, probe.recipe.tags.items)

\* blank entries are dropped and the others trimmed
C25_TrimmedWitness ==
    /\ Transformed
    /\ probe.input.strTags = Str(<<" ", "M", "e", "a", "t", " ", ",", " ", ",", "S",
        "o", "u", "p", ",">>)
    /\ probe.recipe.tags.items = <<Str(<<"M", "e", "a", "t">>), Str(<<"S", "o", "u",
        "p">>), Str(<<"C", "h", "i", "c", "k", "e", "n">>)>>

---------------------------------------------------------------------------
(* Concurrent PUT and DELETE requests on one recipe                        *)
(*                                                                         *)
(* update_recipe and delete_recipe of routes/api.py are plain functions,   *)
(* which the server runs on the threads of a pool: requests overlap, and   *)
(* nothing locks the store.  A thread can be switched between any two      *)
(* accesses to the dict; one access (get, in, [], del, assignment) is      *)
(* atomic.  Every request below addresses the default recipe.  probe holds *)
(* the threads (what each was asked, where it stands, what it answered)    *)
(* and the Recipe object the dict held at the start, which a thread that   *)
(* has fetched it keeps after a del.  The setattr calls of one update are  *)
(* taken as one step.                                                      *)

MaxThreads == 2

Threads == 1..MaxThreads

\* the requests a thread serves: PUT with a body, or DELETE
ThreadRequests ==
    {[op |-> "put", body |-> body] : body \in {Soup, ShortTitle}}
    \cup {[op |-> "delete", body |-> EmptyBody]}

NewThread(request) ==
    [op |-> request.op, body |-> request.body, pc |-> "start", status |-> 0,
     data |-> <<>>, stored |-> FALSE]

RaceInit ==
    /\ recipes = InitialStore
    /\ now = 2
    /\ probe \in {[threads |-> [t \in Threads |-> NewThread(requests[t])],
                   object |-> DefaultRecipe] :
                     requests \in [Threads -> ThreadRequests]}
    /\ nextUuid = 1
    /\ last = NoRequest
    /\ prev = InitialStore
    /\ posted = NoPosts
    /\ writes = 0
    /\ collector = NotFollowed
    /\ recorded = NotFollowed

At(t, op, pc) == probe.threads[t].op = op /\ probe.threads[t].pc = pc

\* the thread moves on
Goes(t, pc) ==
    probe' = [probe EXCEPT !.threads[t].pc = pc]

\* the thread answers: the status, the data of the response, and whether the dict
\* holds the recipe at that moment
Responds(t, status, data, store) ==
    probe' = [probe EXCEPT !.threads[t].pc = "done", !.threads[t].status = status,
                           !.threads[t].data = data,
                           !.threads[t].stored = (DefaultId \in DOMAIN store)]

Rest == UNCHANGED <<nextUuid, last, prev, posted, writes, collector, recorded>>

\* update_recipe of the route up to the call of the store: the id is valid;
\* recipe_storage.get_recipe reads the dict; then the body is validated
PutLookup(t) ==
    /\ At(t, "put", "start")
    /\ IF storage_get_recipe(recipes, DefaultId) = <<>>
       THEN Responds(t, 404, <<>>, recipes)
       ELSE IF ~validate_recipe_update(probe.threads[t].body).is_valid
       THEN Responds(t, 422, <<>>, recipes)
       ELSE Goes(t, "validated")
    /\ UNCHANGED <<recipes, now>> /\ Rest

\* RecipeStorage.update_recipe: if recipe_id not in self.recipes: result = None,
\* which the route returns as the data of a 200
PutContains(t) ==
    /\ At(t, "put", "validated")
    /\ IF DefaultId \notin DOMAIN recipes
       THEN Responds(t, 200, <<>>, recipes)
       ELSE Goes(t, "contained")
    /\ UNCHANGED <<recipes, now>> /\ Rest

\* recipe = self.recipes[recipe_id]: a KeyError when the key is gone, which the
\* route answers with 500
PutFetch(t) ==
    /\ At(t, "put", "contained")
    /\ IF DefaultId \notin DOMAIN recipes
       THEN Responds(t, 500, <<>>, recipes)
       ELSE Goes(t, "fetched")
    /\ UNCHANGED <<recipes, now>> /\ Rest

\* the setattr loop and recipe.updated_at = datetime.now(): the object changes,
\* and with it what the dict holds while it holds the object
PutSetattr(t) ==
    /\ At(t, "put", "fetched")
    /\ \E updated \in {storage_update_recipe(
                          Put(EmptyStore, DefaultId, probe.object), DefaultId,
                          RecipeUpdate(probe.threads[t].body).val, now)} :
          /\ probe' = [probe EXCEPT !.threads[t].pc = "set",
                                    !.object = updated.result[1]]
          /\ recipes' = IF DefaultId \in DOMAIN recipes
                        THEN Put(recipes, DefaultId, updated.result[1])
                        ELSE recipes
          /\ now' = updated.now
    /\ Rest

\* self.recipes[recipe_id] = recipe, and the 200 with the recipe as data
PutStore(t) ==
    /\ At(t, "put", "set")
    /\ recipes' = Put(recipes, DefaultId, probe.object)
    /\ Responds(t, 200, <<probe.object>>, recipes')
    /\ UNCHANGED now /\ Rest

\* delete_recipe of the route up to the call of the store
DeleteLookup(t) ==
    /\ At(t, "delete", "start")
    /\ IF storage_get_recipe(recipes, DefaultId) = <<>>
       THEN Responds(t, 404, <<>>, recipes)
       ELSE Goes(t, "exists")
    /\ UNCHANGED <<recipes, now>> /\ Rest

\* RecipeStorage.delete_recipe: if recipe_id in self.recipes, else success = False,
\* which the route answers with 500
DeleteContains(t) ==
    /\ At(t, "delete", "exists")
    /\ IF DefaultId \notin DOMAIN recipes
       THEN Responds(t, 500, <<>>, recipes)
       ELSE Goes(t, "contained")
    /\ UNCHANGED <<recipes, now>> /\ Rest

\* del self.recipes[recipe_id]: a KeyError when the key is gone (500), else 200
DeleteDel(t) ==
    /\ At(t, "delete", "contained")
    /\ IF DefaultId \notin DOMAIN recipes
       THEN Responds(t, 500, <<>>, recipes) /\ UNCHANGED recipes
       ELSE /\ recipes' = storage_delete_recipe(recipes, DefaultId).store
            /\ Responds(t, 200, <<>>, recipes')
    /\ UNCHANGED now /\ Rest

RaceNext ==
    \E t \in Threads :
       \/ PutLookup(t) \/ PutContains(t) \/ PutFetch(t) \/ PutSetattr(t)
       \/ PutStore(t)
       \/ DeleteLookup(t) \/ DeleteContains(t) \/ DeleteDel(t)

RaceSpec == RaceInit /\ [][RaceNext]_vars

\* C28: under any interleaving of PUT and DELETE requests on one id, a PUT that
\* answers 200 carries the updated recipe as data and the recipe is in the store
\* when it answers, and a DELETE answers 200 or 404, never 500.
C28_RacesAnswerCleanly ==
    \A t \in Threads :
        probe.threads[t].pc = "done" =>
           /\ (probe.threads[t].op = "put" /\ probe.threads[t].status = 200) =>
                 (probe.threads[t].data # <<>> /\ probe.threads[t].stored)
           /\ probe.threads[t].op = "delete" => probe.threads[t].status \in {200, 404}

\* a DELETE has run between the lookup of a PUT and its update: the PUT answers
\* 200 with null as data, the recipe is gone
C28_PutAnswersNull ==
    \E t \in Threads :
        /\ probe.threads[t].op = "put" /\ probe.threads[t].pc = "done"
        /\ probe.threads[t].status = 200
        /\ probe.threads[t].data = <<>>
        /\ ~probe.threads[t].stored

\* two DELETEs have both found the recipe: the second answers 500
C28_DeleteAnswers500 ==
    \E t \in Threads :
        /\ probe.threads[t].op = "delete" /\ probe.threads[t].pc = "done"
        /\ probe.threads[t].status = 500

\* a PUT stores the recipe again after a DELETE has answered 200
C28_DeletedRecipeBack ==
    /\ \E t \in Threads :
          /\ probe.threads[t].op = "delete" /\ probe.threads[t].status = 200
    /\ \A t \in Threads : probe.threads[t].pc = "done"
    /\ DefaultId \in DOMAIN recipes

\* requests that do not overlap answer as the claim says
C28_SequentialWitness ==
    /\ \A t \in Threads : probe.threads[t].pc = "done"
    /\ \E t \in Threads :
          /\ probe.threads[t].op = "put" /\ probe.threads[t].status = 200
          /\ probe.threads[t].data # <<>> /\ probe.threads[t].stored

---------------------------------------------------------------------------
(* Export and import again: GET /api/recipes/export, then POST             *)
(* /api/recipes/import of a file that holds the exported list              *)

\* the Literal source as the text model_dump gives
SourceText(source) ==
    IF source = "external" THEN <<"e","x","t","e","r","n","a","l">>
    ELSE <<"i","n","t","e","r","n","a","l">>

\* Recipe.model_dump() as it would be if the id were left out
RecipeDump_NoId(recipe) ==
    [ModelDump(recipe) EXCEPT
       !.source = Str(SourceText(recipe.source)),
       !.created_at = Str(IsoFormat(recipe.created_at)),
       !.updated_at = Str(IsoFormat(recipe.updated_at))]

\* Recipe.model_dump(): the eleven fields, the two datetimes through
\* serialize_datetime
RecipeDump(recipe) ==
    [ModelDump(recipe) EXCEPT
       !.id = Str(recipe.id),
       !.source = Str(SourceText(recipe.source)),
       !.created_at = Str(IsoFormat(recipe.created_at)),
       !.updated_at = Str(IsoFormat(recipe.updated_at))]

\* list(self.recipes.values()) as a list.  The dict keeps the order of insertion,
\* which the store of this model does not record.  The list is given in the order of
\* created_at, which is the order of insertion when every recipe was created by a
\* POST request, and recipes of the same created_at in some order.
RECURSIVE Ties(_)
Ties(set) ==
    IF set = {} THEN <<>>
    ELSE LET x == CHOOSE x \in set : TRUE
         IN  <<x>> \o Ties(set \ {x})

\* the recipes of set whose created_at is in lo..hi
RECURSIVE ListOf(_, _, _)
ListOf(set, lo, hi) ==
    IF set = {} THEN <<>>
    ELSE IF lo = hi THEN Ties(set)
    ELSE LET mid == (lo + hi) \div 2
         IN  ListOf({x \in set : x.created_at <= mid}, lo, mid)
             \o ListOf({x \in set : x.created_at > mid}, mid + 1, hi)

\* the last reading of the clock IsoFormat writes: minute 59, second 59
MaxReading == 60 * 59 + 59

\* GET /api/recipes/export
export_recipes(store, uuid, t) ==
    IF DOMAIN store = {}
    THEN Outcome([create_success_response(200) EXCEPT !.count = 0, !.action = "export"],
                 store, uuid, t)
    ELSE CHOOSE out \in
           {Outcome([create_success_response(200) EXCEPT
                       !.data = [i \in 1..Len(all) |-> RecipeDump(all[i])],
                       !.count = Len(all), !.action = "export"],
                    store, uuid, t) :
              all \in {ListOf(storage_get_all_recipes(store), 0,
                                 MaxReading)}} : TRUE

\* The store after RecipeStorage.__init__ and n POST requests with the same body:
\* the k-th draws the k-th uuid and two readings of the clock.
CreatedSoup(k) == RecipeModel(Soup, Uuid(k), 2 * k, 2 * k + 1).val

ManyRecipes(n) ==
    [id \in {DefaultId} \cup {Uuid(k) : k \in 1..n} |->
        IF id = DefaultId THEN DefaultRecipe
        ELSE CreatedSoup(CHOOSE k \in 1..n : Uuid(k) = id)]

\* numbers of POST requests before the first export: none, and as many as keep the
\* store above the limit of an import file when the two recipes of RoundTripIds
\* are deleted
CreatedBefore == {0, MAX_IMPORT_RECIPES + 2}

RoundTripInit ==
    /\ \E n \in CreatedBefore :
         /\ recipes = ManyRecipes(n)
         /\ prev = ManyRecipes(n)
         /\ nextUuid = n + 1
         /\ now = 2 * n + 2
    /\ last = NoRequest
    /\ posted = NoPosts
    /\ writes = 0
    /\ collector = NotFollowed
    /\ recorded = NotFollowed
    /\ probe = NotFollowed

\* GET /api/recipes/export runs to its response
ExportRecipes ==
    /\ last.op = "none"
    /\ \E out \in {export_recipes(recipes, nextUuid, now)} :
         Answer("export", <<>>, EmptyBody, NoFile, out)

\* sizes of the file the client writes the exported list to: the list may be written
\* with any amount of white space
ExportSizes == {MAX_FILE_SIZE, MAX_FILE_SIZE + 1}

\* ids of the PUT and DELETE requests between exports
RoundTripIds == {DefaultId, Uuid(1)}

\* POST /api/recipes/import of a .json file that holds the list in the data field of
\* the export response just received
ImportExported(size) ==
    /\ last.op = "export"
    /\ \E file \in {[JsonFile([i \in 1..Len(last.resp.data) |->
                                   Entry(last.resp.data[i])])
                         EXCEPT !.size = size]} :
       \E out \in {import_recipes(recipes, file, nextUuid, now)} :
         LET changed == out.store # recipes \/ out.uuid # nextUuid \/ out.now # now
         IN  /\ changed => writes < MaxWrites
             /\ recipes' = out.store
             /\ nextUuid' = out.uuid
             /\ now' = out.now
             /\ last' = [NoRequest EXCEPT !.op = "import_exported", !.file = file,
                                          !.resp = out.resp]
             /\ prev' = recipes
             /\ posted' = Posted("import", <<>>, out.resp)
             /\ writes' = IF changed THEN writes + 1 ELSE writes
             /\ UNCHANGED <<collector, recorded, probe>>

RoundTripNext ==
    \/ \E body \in ValidBodies : CreateRecipe(body)
    \/ \E id \in RoundTripIds : UpdateRecipe(id, Stew)
    \/ \E id \in RoundTripIds : DeleteRecipe(id)
    \/ ImportRecipes(ExportedFile)
    \/ ExportRecipes
    \/ \E size \in ExportSizes : ImportExported(size)
    \/ Deliver

RoundTripSpec == RoundTripInit /\ [][RoundTripNext]_vars

\* C30 (as stated): for every non-empty store, the import of the exported list
\* responds 201 and leaves the store as it was: the same ids, and under each id a
\* recipe with the same field values, source, created_at and updated_at
C30_RoundTrip ==
    (last.op = "import_exported" /\ DOMAIN prev # {}) =>
        /\ last.resp.status = 201
        /\ DOMAIN recipes = DOMAIN prev
        /\ \A id \in DOMAIN prev : recipes[id] = prev[id]

\* C30 (amended): the same for every non-empty store of at most MAX_IMPORT_RECIPES
\* recipes whose exported list is uploaded in a file of at most MAX_FILE_SIZE bytes
C30_RoundTripWithinLimits ==
    (/\ last.op = "import_exported"
     /\ DOMAIN prev # {}
     /\ Cardinality(DOMAIN prev) <= MAX_IMPORT_RECIPES
     /\ last.file.size <= MAX_FILE_SIZE) =>
        /\ last.resp.status = 201
        /\ DOMAIN recipes = DOMAIN prev
        /\ \A id \in DOMAIN prev : recipes[id] = prev[id]

\* a round trip of a store that holds an imported external recipe, a recipe created by
\* a POST request and nothing else
C30_Witness ==
    /\ last.op = "import_exported"
    /\ last.resp.status = 201
    /\ Cardinality(DOMAIN prev) = 3
    /\ \E id \in DOMAIN prev : prev[id].source = "external"
    /\ recipes = prev

\* the exported list of a store of more than MAX_IMPORT_RECIPES recipes is refused
C30_TooManyRefused ==
    /\ last.op = "import_exported"
    /\ Cardinality(DOMAIN prev) > MAX_IMPORT_RECIPES
    /\ last.file.size <= MAX_FILE_SIZE
    /\ last.resp.status = 422
    /\ recipes = prev

\* the exported list in a file of more than MAX_FILE_SIZE bytes is refused
C30_LargeFileRefused ==
    /\ last.op = "import_exported"
    /\ Cardinality(DOMAIN prev) <= MAX_IMPORT_RECIPES
    /\ last.file.size > MAX_FILE_SIZE
    /\ last.resp.status = 400
    /\ recipes = prev

=============================================================================
